---- MODULE Spec2Model ----
(***************************************************************************)
(* Software rasterizer of Proyect3_Space_Ship: the framebuffer with its    *)
(* depth buffer (framebuffer.rs), the edge-function triangle fill          *)
(* (triangle.rs, shader.rs) and the render pipeline of main.rs.            *)
(*                                                                         *)
(* Numbers.  Screen coordinates are f32 in the source; here they are       *)
(* integers counted in units of 1/Scale pixel, so a pixel centre x + 0.5   *)
(* is x*Scale + Half.  Depths are exact rationals <<n, d>> (d > 0, lowest  *)
(* terms), f32::INFINITY is Infinity.  Colour channels in 0..1 are counted *)
(* in units of 1/ChanUnit.                                                 *)
(***************************************************************************)
EXTENDS Integers, Sequences, FiniteSets, TLC

VARIABLES
    width,             \* Framebuffer.width
    height,            \* Framebuffer.height
    color_buffer,      \* Framebuffer.color_buffer, indexed y*width + x
    depth_buffer,      \* Framebuffer.depth_buffer, indexed y*width + x
    background_color,  \* Framebuffer.background_color
    current_color,     \* Framebuffer.current_color
    call,              \* the last clear or drawing call, with its arguments and result
    hist,              \* the drawing calls made since the last clear(), in order
    panicked,          \* TRUE once a buffer was indexed outside 0 .. width*height - 1
    pc,                \* where render() stands: "idle" outside it, "assembled", "writing"
    triangles,         \* render's `triangles`, the output of primitive assembly
    fragments,         \* render's `fragments`, the shaded fragments of the parallel stage
    fi,                \* index in `fragments` of the next fragment the write loop takes
    eval,              \* the call of a pure function: its name, arguments and result (a tuple)
    work,              \* render's parallel stage: the triangles a worker has taken, each with
                       \* its fragments, rasterized or already shaded
    main               \* main(): where it stands, the supersample factor, the frames shown,
                       \* the buffer handed to the window and the steps of the iteration

fbvars == <<width, height, color_buffer, depth_buffer, background_color,
            current_color, call, hist, panicked>>
rvars == <<pc, triangles, fragments, fi>>
ovars == <<eval, work>>
\* everything but eval
pvars == <<fbvars, rvars, work, main>>
vars == <<fbvars, rvars, ovars, main>>

\* number of drawing calls since the last clear()
nOps == Len(hist)

-----------------------------------------------------------------------------
(* Bounds of the model *)

\* framebuffer of the general specification: FbWidth x FbHeight pixels
FbWidth == 2
FbHeight == 2
\* drawing calls between two clear() calls
MaxOps == 2
\* the farthest finite depth: depths handed to the framebuffer and vertex depths
\* are 1 and MaxZ
MaxZ == 2
\* half a pixel, in coordinate units
Half == 200
\* framebuffer of the triangle specification: TriWidth x TriHeight pixels
TriWidth == 4
TriHeight == 4
\* triangles drawn between two clear() calls in the triangle specification
MaxTris == 1
\* vertices in the stream handed to render()
MaxVerts == 7

Scale == 2 * Half

-----------------------------------------------------------------------------
(* Arithmetic helpers *)

Abs(a) == IF a < 0 THEN -a ELSE a
Min(a, b) == IF a <= b THEN a ELSE b
Max(a, b) == IF a >= b THEN a ELSE b

RECURSIVE Gcd(_, _)
Gcd(a, b) == IF b = 0 THEN a ELSE Gcd(b, a % b)

\* f32::INFINITY
Infinity == <<1, 0>>

\* the f32 value n/d, d # 0, in lowest terms
Rat(n, d) ==
    LET s == IF d < 0 THEN -1 ELSE 1
        g == Gcd(Abs(n), Abs(d))
    IN  <<(s * n) \div g, (s * d) \div g>>

\* n1/d1 < n2/d2 for d1, d2 > 0, by continued fractions (no product is formed)
RECURSIVE FracLess(_, _, _, _)
FracLess(n1, d1, n2, d2) ==
    LET q1 == n1 \div d1
        q2 == n2 \div d2
        r1 == n1 % d1
        r2 == n2 % d2
    IN  IF q1 # q2 THEN q1 < q2
        ELSE IF r2 = 0 THEN FALSE
        ELSE IF r1 = 0 THEN TRUE
        ELSE FracLess(d2, r2, d1, r1)

\* mutant of F32Less: accepts equal depths
F32LessOrEqual(a, b) ==
    IF a[2] = 0 THEN b[2] = 0
    ELSE IF b[2] = 0 THEN TRUE
    ELSE a = b \/ FracLess(a[1], a[2], b[1], b[2])

\* a < b on f32 depths (framebuffer.rs:56)
F32Less(a, b) ==
    IF a[2] = 0 THEN FALSE
    ELSE IF b[2] = 0 THEN TRUE
    ELSE FracLess(a[1], a[2], b[1], b[2])

-----------------------------------------------------------------------------
(* Colours *)

BLACK == <<0, 0, 0>>
WHITE == <<255, 255, 255>>
RED == <<255, 0, 0>>

\* colours handed to the framebuffer's setters
Palette == {BLACK, RED}

-----------------------------------------------------------------------------
(* Framebuffer *)

Pixels == 0 .. (width * height - 1)

\* Framebuffer::depth_index
depth_index(x, y) == y * width + x

\* mutant of InBounds: off by one on both axes
InBoundsOffByOne(x, y) == x <= width /\ y <= height

\* the bounds check of set_pixel, set_pixel_color and test_and_set_depth
InBounds(x, y) == x < width /\ y < height

\* no triangle
NoTriangle == <<>>

NoCall == [op |-> "new", x |-> 0, y |-> 0, depth |-> Infinity, color |-> BLACK, ret |-> FALSE,
           tri |-> NoTriangle, divs |-> 0]

\* Image::gen_image_color(width, height, color)
gen_image_color(w, h, c) == [i \in 0 .. (w * h - 1) |-> c]

\* Image::draw_pixel at an index of the colour buffer; outside the buffer the
\* write is an out-of-range access
draw_pixel(buf, idx, c) == IF idx \in DOMAIN buf THEN [buf EXCEPT ![idx] = c] ELSE buf

\* Framebuffer::new(width, height)
FramebufferNew(w, h) ==
    /\ width = w
    /\ height = h
    /\ color_buffer = gen_image_color(w, h, BLACK)
    /\ depth_buffer = [i \in 0 .. (w * h - 1) |-> Infinity]
    /\ background_color = BLACK
    /\ current_color = WHITE
    /\ call = NoCall
    /\ hist = <<>>
    /\ panicked = FALSE

\* mutant of clear: the depth buffer is not reset
clearKeepDepth ==
    /\ color_buffer' = gen_image_color(width, height, background_color)
    /\ call' = [NoCall EXCEPT !.op = "clear"]
    /\ hist' = <<>>
    /\ UNCHANGED <<width, height, depth_buffer, background_color, current_color, panicked>>

\* Framebuffer::clear
clear ==
    /\ color_buffer' = gen_image_color(width, height, background_color)
    /\ depth_buffer' = [i \in Pixels |-> Infinity]
    /\ call' = [NoCall EXCEPT !.op = "clear"]
    /\ hist' = <<>>
    /\ UNCHANGED <<width, height, background_color, current_color, panicked>>

\* Framebuffer::set_pixel
set_pixel(x, y) ==
    /\ nOps < MaxOps
    /\ IF InBounds(x, y)
       THEN /\ color_buffer' = draw_pixel(color_buffer, depth_index(x, y), current_color)
            /\ panicked' = (panicked \/ depth_index(x, y) \notin Pixels)
       ELSE UNCHANGED <<color_buffer, panicked>>
    /\ call' = [NoCall EXCEPT !.op = "set_pixel", !.x = x, !.y = y, !.color = current_color]
    /\ hist' = Append(hist, call')
    /\ UNCHANGED <<width, height, depth_buffer, background_color, current_color>>

\* Framebuffer::set_background_color
set_background_color(c) ==
    /\ background_color # c
    /\ background_color' = c
    /\ UNCHANGED <<width, height, color_buffer, depth_buffer, current_color, call, hist,
                   panicked>>

\* Framebuffer::set_current_color
set_current_color(c) ==
    /\ current_color # c
    /\ current_color' = c
    /\ UNCHANGED <<width, height, color_buffer, depth_buffer, background_color, call, hist,
                   panicked>>

\* Framebuffer::set_pixel_color
set_pixel_color(x, y, c) ==
    /\ nOps < MaxOps
    /\ IF InBounds(x, y)
       THEN /\ color_buffer' = draw_pixel(color_buffer, depth_index(x, y), c)
            /\ panicked' = (panicked \/ depth_index(x, y) \notin Pixels)
       ELSE UNCHANGED <<color_buffer, panicked>>
    /\ call' = [NoCall EXCEPT !.op = "set_pixel_color", !.x = x, !.y = y, !.color = c]
    /\ hist' = Append(hist, call')
    /\ UNCHANGED <<width, height, depth_buffer, background_color, current_color>>

\* mutant of DepthTest: the depth is stored without being compared
DepthTestAlwaysStore(buf, x, y, depth) ==
    IF ~InBounds(x, y) THEN <<FALSE, buf, TRUE>>
    ELSE LET idx == depth_index(x, y)
         IN  IF idx \notin DOMAIN buf THEN <<FALSE, buf, FALSE>>
             ELSE <<TRUE, [buf EXCEPT ![idx] = depth], TRUE>>

\* the depth test of test_and_set_depth on a depth buffer: <<accepted, new buffer, index in range>>
DepthTest(buf, x, y, depth) ==
    IF ~InBounds(x, y) THEN <<FALSE, buf, TRUE>>
    ELSE LET idx == depth_index(x, y)
         IN  IF idx \notin DOMAIN buf THEN <<FALSE, buf, FALSE>>
             ELSE IF F32Less(depth, buf[idx])
                  THEN <<TRUE, [buf EXCEPT ![idx] = depth], TRUE>>
                  ELSE <<FALSE, buf, TRUE>>

\* mutant of DrawFragment: the colour is written whether or not the depth test accepts
DrawFragmentUntested(st, x, y, depth, color) ==
    LET r == DepthTest(st.depth, x, y, depth)
    IN  [st EXCEPT !.depth = r[2],
                   !.panicked = @ \/ ~r[3],
                   !.ret = r[1],
                   !.color = IF InBounds(x, y) THEN draw_pixel(@, depth_index(x, y), color) ELSE @]

\* the depth test and colour write of triangle_filled for one fragment:
\* if framebuffer.test_and_set_depth(x, y, depth) { framebuffer.set_pixel_color(x, y, color) }
DrawFragment(st, x, y, depth, color) ==
    LET r == DepthTest(st.depth, x, y, depth)
    IN  IF ~r[1]
        THEN [st EXCEPT !.panicked = @ \/ ~r[3], !.ret = FALSE]
        ELSE [st EXCEPT !.depth = r[2],
                        !.ret = TRUE,
                        !.color = IF InBounds(x, y)
                                  THEN draw_pixel(@, depth_index(x, y), color)
                                  ELSE @]

\* the buffers as the loop of triangle_filled carries them
Buffers == [color |-> color_buffer, depth |-> depth_buffer, divs |-> 0,
            panicked |-> panicked, ret |-> FALSE]

\* one fragment drawn through the depth test (triangle.rs, the tail of the loop body)
draw_fragment(x, y, depth, color) ==
    LET st == DrawFragment(Buffers, x, y, depth, color)
    IN  /\ nOps < MaxOps
        /\ color_buffer' = st.color
        /\ depth_buffer' = st.depth
        /\ panicked' = st.panicked
        /\ call' = [NoCall EXCEPT !.op = "draw_fragment", !.x = x, !.y = y, !.depth = depth,
                                  !.color = color, !.ret = st.ret]
        /\ hist' = Append(hist, call')
        /\ UNCHANGED <<width, height, background_color, current_color>>

\* Framebuffer::test_and_set_depth
test_and_set_depth(x, y, depth) ==
    LET r == DepthTest(depth_buffer, x, y, depth)
    IN  /\ nOps < MaxOps
        /\ depth_buffer' = r[2]
        /\ panicked' = (panicked \/ ~r[3])
        /\ call' = [NoCall EXCEPT !.op = "test_and_set_depth", !.x = x, !.y = y,
                                  !.depth = depth, !.ret = r[1]]
        /\ hist' = Append(hist, call')
        /\ UNCHANGED <<width, height, color_buffer, background_color, current_color>>

-----------------------------------------------------------------------------
(* triangle.rs and shader.rs: the filled triangle *)

\* 1 / 1e-5, the reciprocal of the degenerate-area epsilon
EpsInv == 100000

\* units of a colour channel: the channel value v stands for v / ChanUnit
ChanUnit == 4

\* edge_function(a, b, c) on points <<x, y>>
edge_function(a, b, c) == (c[1] - a[1]) * (b[2] - a[2]) - (c[2] - a[2]) * (b[1] - a[1])

\* f32::floor and f32::ceil of a coordinate, in whole pixels
Floor(v) == v \div Scale
Ceil(v) == -((-v) \div Scale)

\* mutant of Degenerate: only an exactly zero area is skipped
DegenerateExactZero(area) == area = 0

\* area.abs() < 1e-5, the area counted in squared coordinate units
Degenerate(area) == Abs(area) <= (Scale * Scale - 1) \div EpsInv

\* mutant of Inside: the sign test against the triangle's own signed area
InsideEitherSign(w0, w1, w2) ==
    \/ (w0 <= 0 /\ w1 <= 0 /\ w2 <= 0)
    \/ (w0 >= 0 /\ w1 >= 0 /\ w2 >= 0)

\* mutant of Inside: pixel centres on an edge are left out
InsideStrict(w0, w1, w2) == w0 < 0 /\ w1 < 0 /\ w2 < 0

\* mutant of Inside: the test for the opposite orientation
InsideOpposite(w0, w1, w2) == w0 >= 0 /\ w1 >= 0 /\ w2 >= 0

\* the inside test of triangle_filled
Inside(w0, w1, w2) == w0 <= 0 /\ w1 <= 0 /\ w2 <= 0

\* shader.rs clamp01, and x.max(0.0).min(1.0) of triangle_filled
clamp01(v) == Min(Max(v, 0), ChanUnit)

\* shader.rs fragment_shader: pattern 6 returns the material's base colour; the
\* other patterns are functions of position and time, here the value `shade`
fragment_shader(material) ==
    LET col == IF material.pattern % 7 = 6 THEN material.base ELSE material.shade
    IN  <<clamp01(col[1]), clamp01(col[2]), clamp01(col[3])>>

\* mutant of ToU8: the channel is scaled by 256 and wraps around
ToU8Wrapping(v) == ((v * 256) \div ChanUnit) % 256

\* (r * 255.0) as u8
ToU8(v) == Min(Max((v * 255) \div ChanUnit, 0), 255)

\* the packed colour triangle_filled writes for a shaded fragment
PackColor(rgb) == <<ToU8(clamp01(rgb[1])), ToU8(clamp01(rgb[2])), ToU8(clamp01(rgb[3]))>>

\* pixel centre x + 0.5
Centre(x) == x * Scale + Half

\* mutant of BoundingBox: the box is not cut to the framebuffer
BoundingBoxUncut(p0, p1, p2) ==
    <<Floor(Min(Min(p0[1], p1[1]), p2[1])), Ceil(Max(Max(p0[1], p1[1]), p2[1])),
      Floor(Min(Min(p0[2], p1[2]), p2[2])), Ceil(Max(Max(p0[2], p1[2]), p2[2]))>>

\* the bounding box of triangle_filled: <<min_x, max_x, min_y, max_y>>
BoundingBox(p0, p1, p2) ==
    <<Max(Floor(Min(Min(p0[1], p1[1]), p2[1])), 0),
      Min(Ceil(Max(Max(p0[1], p1[1]), p2[1])), width - 1),
      Max(Floor(Min(Min(p0[2], p1[2]), p2[2])), 0),
      Min(Ceil(Max(Max(p0[2], p1[2]), p2[2])), height - 1)>>

\* the pixels the two loops of triangle_filled visit, in order
ScanOrder(bb) ==
    IF bb[1] > bb[2] \/ bb[3] > bb[4] THEN <<>>
    ELSE LET w == bb[2] - bb[1] + 1
             h == bb[4] - bb[3] + 1
         IN  [k \in 1 .. (w * h) |-> <<bb[1] + ((k - 1) % w), bb[3] + ((k - 1) \div w)>>]

\* one iteration of the loop body of triangle_filled at pixel (x, y)
FillPixel(st, x, y, v1, v2, v3, area, material) ==
    LET p == <<Centre(x), Centre(y)>>
        p0 == <<v1.x, v1.y>>
        p1 == <<v2.x, v2.y>>
        p2 == <<v3.x, v3.y>>
        w0 == edge_function(p1, p2, p)
        w1 == edge_function(p2, p0, p)
        w2 == edge_function(p0, p1, p)
    IN  IF ~Inside(w0, w1, w2) THEN st
        ELSE LET depth == Rat(v1.z * w0 + v2.z * w1 + v3.z * w2, area)
             IN  DrawFragment([st EXCEPT !.divs = @ + 3], x, y, depth,
                              PackColor(fragment_shader(material)))

RECURSIVE FillLoop(_, _, _, _, _, _, _, _)
FillLoop(st, order, k, v1, v2, v3, area, material) ==
    IF k > Len(order) \/ st.panicked THEN st   \* an index out of range ends the call
    ELSE FillLoop(FillPixel(st, order[k][1], order[k][2], v1, v2, v3, area, material),
                  order, k + 1, v1, v2, v3, area, material)

\* triangle_filled
triangle_filled(v1, v2, v3, material) ==
    LET p0 == <<v1.x, v1.y>>
        p1 == <<v2.x, v2.y>>
        p2 == <<v3.x, v3.y>>
        signed_area == edge_function(p0, p1, p2)
        st == IF Degenerate(signed_area) THEN Buffers
              ELSE FillLoop(Buffers, ScanOrder(BoundingBox(p0, p1, p2)), 1, v1, v2, v3,
                            signed_area, material)
    IN  /\ nOps < MaxOps
        /\ color_buffer' = st.color
        /\ depth_buffer' = st.depth
        /\ panicked' = st.panicked
        /\ call' = [NoCall EXCEPT !.op = "triangle_filled", !.tri = <<v1, v2, v3>>,
                                  !.color = PackColor(fragment_shader(material)),
                                  !.divs = st.divs]
        /\ hist' = Append(hist, call')
        /\ UNCHANGED <<width, height, background_color, current_color>>

-----------------------------------------------------------------------------
(* main.rs: render *)

\* mutant of FrontFacing: only zero-area triangles are dropped
FrontFacingOrBack(v0, v1, v2) ==
    (v1.x - v0.x) * (v2.y - v0.y) - (v1.y - v0.y) * (v2.x - v0.x) # 0

\* the backface test of primitive assembly: the 2D cross product of the edges
\* v1 - v0 and v2 - v0 of the transformed positions is positive
FrontFacing(v0, v1, v2) ==
    LET edge1_x == v1.x - v0.x
        edge1_y == v1.y - v0.y
        edge2_x == v2.x - v0.x
        edge2_y == v2.y - v0.y
        cross == edge1_x * edge2_y - edge1_y * edge2_x
    IN  cross > 0

\* transformed_vertices[k], k counted from 0; the read of an index out of range
\* panics and yields no vertex
NoVertex == [x |-> 0, y |-> 0, z |-> 0]
At(tv, k) == IF k < Len(tv) THEN tv[k + 1] ELSE NoVertex

\* mutant of Complete: the triple is taken as soon as its first vertex exists
CompleteFirstOnly(i, n) == i < n

\* if i + 2 < transformed_vertices.len()
Complete(i, n) == i + 2 < n

\* the assembly loop from 0-based index i: for i in (0..len).step_by(3)
RECURSIVE Assemble(_, _)
Assemble(tv, i) ==
    IF i >= Len(tv) THEN <<>>
    ELSE IF Complete(i, Len(tv)) /\ FrontFacing(At(tv, i), At(tv, i + 1), At(tv, i + 2))
         THEN <<<<At(tv, i), At(tv, i + 1), At(tv, i + 2)>>>> \o Assemble(tv, i + 3)
         ELSE Assemble(tv, i + 3)

\* the assembly loop reads a vertex past the end of the stream
AssemblePanics(tv) ==
    \E i \in 0 .. (Len(tv) - 1) :
        i % 3 = 0 /\ Complete(i, Len(tv)) /\ i + 2 >= Len(tv)

\* the bounding box of triangle(): floor of the least and ceil of the greatest
\* coordinate; the function is not handed the framebuffer's size
FragmentBox(a, b, c) ==
    <<Floor(Min(Min(a.x, b.x), c.x)), Ceil(Max(Max(a.x, b.x), c.x)),
      Floor(Min(Min(a.y, b.y), c.y)), Ceil(Max(Max(a.y, b.y), c.y))>>

\* the fill rule: the three edge functions agree in sign with the signed area
SameSign(w, area) == IF area < 0 THEN w <= 0 ELSE w >= 0

\* the fragment of triangle() at pixel (x, y), as a sequence of at most one fragment
FragmentAt(a, b, c, x, y, color) ==
    LET p == <<Centre(x), Centre(y)>>
        p0 == <<a.x, a.y>>
        p1 == <<b.x, b.y>>
        p2 == <<c.x, c.y>>
        area == edge_function(p0, p1, p2)
        w0 == edge_function(p1, p2, p)
        w1 == edge_function(p2, p0, p)
        w2 == edge_function(p0, p1, p)
    IN  IF SameSign(w0, area) /\ SameSign(w1, area) /\ SameSign(w2, area)
        THEN <<[x |-> x * Scale, y |-> y * Scale,
                depth |-> Rat(a.z * w0 + b.z * w1 + c.z * w2, area), color |-> color]>>
        ELSE <<>>

RECURSIVE FragmentLoop(_, _, _, _, _, _)
FragmentLoop(a, b, c, order, k, color) ==
    IF k > Len(order) THEN <<>>
    ELSE FragmentAt(a, b, c, order[k][1], order[k][2], color)
            \o FragmentLoop(a, b, c, order, k + 1, color)

\* triangle(v1, v2, v3) followed by the shader, which colours every fragment
Rasterize(tri, color) ==
    LET area == edge_function(<<tri[1].x, tri[1].y>>, <<tri[2].x, tri[2].y>>,
                              <<tri[3].x, tri[3].y>>)
    IN  IF Degenerate(area) THEN <<>>
        ELSE FragmentLoop(tri[1], tri[2], tri[3],
                          ScanOrder(FragmentBox(tri[1], tri[2], tri[3])), 1, color)

\* triangles.par_iter().flat_map(...).collect(): the fragments in triangle order
RECURSIVE FlatMap(_, _, _)
FlatMap(tris, k, color) ==
    IF k > Len(tris) THEN <<>>
    ELSE Rasterize(tris[k], color) \o FlatMap(tris, k + 1, color)

\* `v as usize` on an f32: truncation toward zero, saturating at 0 for negatives
F32AsUsize(v) == IF v <= 0 THEN 0 ELSE v \div Scale

\* Framebuffer::point(x, y, depth): the depth-tested write of current_color
point(st, x, y, depth, color) ==
    IF ~(x < width /\ y < height) THEN [st EXCEPT !.ret = FALSE]
    ELSE LET idx == y * width + x
         IN  IF idx \in DOMAIN st.depth /\ F32Less(depth, st.depth[idx])
             THEN [st EXCEPT !.depth[idx] = depth, !.color[idx] = color, !.ret = TRUE]
             ELSE [st EXCEPT !.ret = FALSE, !.panicked = @ \/ idx \notin DOMAIN st.depth]

\* render, up to the end of primitive assembly; tv is the output of the vertex stage
render_assemble(tv) ==
    /\ pc = "idle"
    /\ nOps < MaxOps
    /\ triangles' = Assemble(tv, 0)
    /\ pc' = "assembled"
    /\ call' = [NoCall EXCEPT !.op = "render", !.tri = tv]
    /\ hist' = Append(hist, call')
    /\ panicked' = (panicked \/ AssemblePanics(tv))
    /\ UNCHANGED <<width, height, color_buffer, depth_buffer, background_color,
                   current_color, fragments, fi, ovars>>

\* render, the parallel rasterization and shading stage
render_shade(color) ==
    /\ pc = "assembled"
    /\ fragments' = FlatMap(triangles, 1, color)
    /\ fi' = 1
    /\ pc' = IF fragments' = <<>> THEN "idle" ELSE "writing"
    /\ triangles' = IF fragments' = <<>> THEN <<>> ELSE triangles
    /\ UNCHANGED <<fbvars, ovars>>

\* render, one iteration of the loop that writes the fragments to the framebuffer
render_write ==
    /\ pc = "writing"
    /\ LET frag == fragments[fi]
           x == F32AsUsize(frag.x)
           y == F32AsUsize(frag.y)
           last == fi = Len(fragments)
       IN  /\ IF x < width /\ y < height
              THEN LET st == point(Buffers, x, y, frag.depth, frag.color)
                   IN  /\ current_color' = frag.color
                       /\ color_buffer' = st.color
                       /\ depth_buffer' = st.depth
                       /\ panicked' = st.panicked
                       /\ call' = [NoCall EXCEPT !.op = "point", !.x = x, !.y = y,
                                                 !.depth = frag.depth, !.color = frag.color,
                                                 !.ret = st.ret]
              ELSE /\ call' = [NoCall EXCEPT !.op = "discard"]
                   /\ UNCHANGED <<current_color, color_buffer, depth_buffer, panicked>>
           /\ fi' = IF last THEN 1 ELSE fi + 1
           /\ pc' = IF last THEN "idle" ELSE "writing"
           /\ fragments' = IF last THEN <<>> ELSE fragments
           /\ triangles' = IF last THEN <<>> ELSE triangles
    /\ UNCHANGED <<width, height, background_color, hist, ovars>>

-----------------------------------------------------------------------------
(* Specification of the framebuffer *)

\* u32 pixel coordinates handed to the framebuffer: the first and the last pixel,
\* and the pixels one past the end of the first row and of the first column
PixelArgs == {<<0, 0>>, <<FbWidth - 1, FbHeight - 1>>, <<FbWidth, 0>>, <<0, FbHeight>>}

\* depths handed to test_and_set_depth: the nearest, the farthest and f32::INFINITY
DepthArgs == {Rat(1, 1), Rat(MaxZ, 1), Infinity}

\* a constant-colour material: pattern 6 with a red base colour
RedMaterial == [pattern |-> 6, base |-> <<ChanUnit, 0, 0>>, shade |-> <<0, 0, 0>>]

\* colours of the fragments drawn one at a time
FragColors == {RED, WHITE}

\* the corners of the framebuffer's lower-left half, as screen positions
Corners == {<<0, 0>>, <<FbWidth * Scale, 0>>, <<0, FbHeight * Scale>>}

\* the vertex at screen position p with depth z
Vertex(p, z) == [x |-> p[1], y |-> p[2], z |-> z]

\* triangles of the general specification: the three corners in both windings,
\* at the nearest and at the farthest depth
TriArgs ==
    {t \in {<<Vertex(<<0, 0>>, z), Vertex(b, z), Vertex(c, z)>> :
                b \in Corners, c \in Corners, z \in {1, MaxZ}} :
        Cardinality({t[1], t[2], t[3]}) = 3}

\* outside render()
\* the camera main() creates: Camera::new((600, 800, 2200), (600, 400, 0)).  The
\* position is target - direction * offset, offset being the distance (about
\* 2236); fwd, right and up count how far the target was moved along the
\* viewing direction, to the right and along y; nan tells that a normalize() of
\* the zero vector has made the vectors NaN
NoCamera == [offset |-> 2236, fwd |-> 0, right |-> 0, up |-> 0, nan |-> FALSE]

\* main() before its loop: the supersample factor is 2, nothing was shown
NoMain == [pos |-> "setup", rk |-> 0, log |-> <<>>, factor |-> 2, frames |-> 0, shown |-> <<>>,
           camera |-> NoCamera, realloc |-> FALSE]

\* no pure function was called yet
NoEval == [fn |-> "none", args |-> <<>>, ret |-> <<>>, panic |-> FALSE]

\* no render call is in progress and no helper was called
IdleRender ==
    /\ pc = "idle" /\ triangles = <<>> /\ fragments = <<>> /\ fi = 1
    /\ eval = NoEval /\ work = {}

Idle == IdleRender /\ main = NoMain

Init == FramebufferNew(FbWidth, FbHeight) /\ Idle

\* pixels of the fragments drawn one at a time: triangle_filled's loops stay
\* inside the framebuffer
FragPixels == {p \in PixelArgs : p[1] < FbWidth /\ p[2] < FbHeight}

Next ==
    \/ clear /\ UNCHANGED <<rvars, ovars, main>>
    \/ \E p \in PixelArgs : set_pixel(p[1], p[2]) /\ UNCHANGED <<rvars, ovars, main>>
    \/ \E c \in Palette : set_background_color(c) /\ UNCHANGED <<rvars, ovars, main>>
    \/ set_current_color(RED) /\ UNCHANGED <<rvars, ovars, main>>
    \/ \E p \in PixelArgs, c \in Palette : set_pixel_color(p[1], p[2], c) /\ UNCHANGED <<rvars, ovars, main>>
    \/ \E p \in PixelArgs, d \in DepthArgs :
          test_and_set_depth(p[1], p[2], d) /\ UNCHANGED <<rvars, ovars, main>>
    \/ \E p \in FragPixels, d \in DepthArgs, c \in FragColors :
          draw_fragment(p[1], p[2], d, c) /\ UNCHANGED <<rvars, ovars, main>>
    \/ \E t \in TriArgs : triangle_filled(t[1], t[2], t[3], RedMaterial) /\ UNCHANGED <<rvars, ovars, main>>

Spec == Init /\ [][Next]_vars

-----------------------------------------------------------------------------
(* Specification of the triangle fill: triangles drawn into a cleared framebuffer *)

\* screen positions of the vertices, in three groups: the corners (0,0), (w,0),
\* (0,h) of the framebuffer with a point outside it; three points one coordinate
\* unit apart at the centre of pixel (0,0); three points on the diagonal x = y
CoarsePoints == {<<0, 0>>, <<TriWidth * Scale, 0>>, <<0, TriHeight * Scale>>, <<-Scale, -Scale>>}
FinePoints == {<<Half, Half>>, <<Half + 1, Half>>, <<Half, Half + 1>>}
LinePoints == {<<-Scale, -Scale>>, <<0, 0>>, <<Half, Half>>}

\* triangles wholly outside the framebuffer, in the winding that is filled and
\* in the other: to the left of it, beyond its far corner, and across the corner
\* at the origin with the bounding box reaching into the framebuffer
OutsideTriples ==
    {<<<<-2 * Scale, 0>>, <<-Scale, 0>>, <<-Scale, 2 * Scale>>>>,
     <<<<-2 * Scale, 0>>, <<-Scale, 2 * Scale>>, <<-Scale, 0>>>>,
     <<<<(TriWidth + 1) * Scale, (TriHeight + 1) * Scale>>,
       <<(TriWidth + 1) * Scale, (TriHeight + 2) * Scale>>,
       <<(TriWidth + 2) * Scale, (TriHeight + 1) * Scale>>>>,
     <<<<-2 * Scale, -2 * Scale>>, <<-2 * Scale, Scale>>, <<Scale, -2 * Scale>>>>,
     <<<<-2 * Scale, -2 * Scale>>, <<Scale, -2 * Scale>>, <<-2 * Scale, Scale>>>>}

\* every triple of vertex positions of one group and the triangles outside the
\* framebuffer, the first vertex at the least or the greatest depth, the others
\* at depth 1
TriTriangles ==
    {<<Vertex(a, z), Vertex(b, 1), Vertex(c, 1)>> :
        <<a, b, c>> \in (CoarsePoints \X CoarsePoints \X CoarsePoints)
                        \cup (FinePoints \X FinePoints \X FinePoints)
                        \cup (LinePoints \X LinePoints \X LinePoints)
                        \cup OutsideTriples,
        z \in {1, MaxZ}}

InitTri == FramebufferNew(TriWidth, TriHeight) /\ Idle

NextTri ==
    \/ clear /\ UNCHANGED <<rvars, ovars, main>>
    \/ \E c \in Palette : nOps = 0 /\ set_background_color(c) /\ UNCHANGED <<rvars, ovars, main>>
    \/ \E t \in TriTriangles :
          nOps < MaxTris /\ triangle_filled(t[1], t[2], t[3], RedMaterial) /\ UNCHANGED <<rvars, ovars, main>>

SpecTri == InitTri /\ [][NextTri]_vars

-----------------------------------------------------------------------------
(* Specification of render: vertex streams assembled, rasterized and written *)

\* transformed positions of the stream: P, Q, R are the corners of a front-facing
\* triangle that hangs over the top and the left edge of the framebuffer and ends
\* one column past its right edge; O is the framebuffer's origin
RenderP == <<-Scale, -Scale>>
RenderQ == <<FbWidth * Scale, -Scale>>
RenderR == <<-Scale, Scale>>
RenderO == <<0, 0>>

\* vertex positions in stream order: the triangle P, Q, R first, front-facing,
\* reversed or collapsed to a line, then a second triangle and a stray vertex
MasterStreams ==
    {<<RenderP, RenderQ, RenderR, RenderO, RenderR, RenderQ, RenderP>>,
     <<RenderP, RenderR, RenderQ, RenderP, RenderQ, RenderR, RenderO>>,
     <<RenderP, RenderP, RenderQ, RenderP, RenderQ, RenderR, RenderO>>,
     <<RenderP, RenderQ, RenderR, RenderO, RenderQ, RenderR, RenderP>>}

\* the streams: the first n <= MaxVerts vertices of a master stream, all at the
\* nearest or all at the farthest depth
Streams ==
    {[k \in 1 .. n |-> Vertex(m[k], z)] :
        m \in MasterStreams, n \in 0 .. Min(MaxVerts, 7), z \in {1, MaxZ}}

InitRender == Init

NextRender ==
    \/ pc = "idle" /\ clear /\ UNCHANGED <<rvars, ovars, main>>
    \/ \E tv \in Streams : render_assemble(tv) /\ UNCHANGED main
    \/ \E c \in FragColors : render_shade(c) /\ UNCHANGED main
    \/ render_write /\ UNCHANGED main
    \/ \E t \in TriArgs :
          pc = "idle" /\ triangle_filled(t[1], t[2], t[3], RedMaterial) /\ UNCHANGED <<rvars, ovars, main>>

SpecRender == InitRender /\ [][NextRender]_vars

-----------------------------------------------------------------------------
(* celestial_shaders.rs: the procedural helpers of the material functions.  *)
(* An f32 is an exact rational <<n, d>> in lowest terms, or NaN.            *)

\* f32::NAN
NaN == <<0, 0>>

\* a < b on f32 values: false as soon as one of them is NaN
LessF32(a, b) == a # NaN /\ b # NaN /\ FracLess(a[1], a[2], b[1], b[2])

MulF32(a, b) == IF a = NaN \/ b = NaN THEN NaN ELSE Rat(a[1] * b[1], a[2] * b[2])
\* a + b and a - b, over the least common denominator
AddF32(a, b) ==
    IF a = NaN \/ b = NaN THEN NaN
    ELSE LET g == Gcd(a[2], b[2])
         IN  Rat(a[1] * (b[2] \div g) + b[1] * (a[2] \div g), (a[2] \div g) * b[2])
SubF32(a, b) == IF b = NaN THEN NaN ELSE AddF32(a, <<-b[1], b[2]>>)

\* f32::clamp(min, max): NaN is neither below min nor above max and comes back
ClampF32(v, min, max) ==
    IF LessF32(v, min) THEN min ELSE IF LessF32(max, v) THEN max ELSE v

\* f32::floor
FloorF32(v) == IF v = NaN THEN NaN ELSE <<v[1] \div v[2], 1>>

\* `v as u32` on a whole f32: NaN and the negatives become 0
AsU32(v) == IF v = NaN \/ v[1] < 0 THEN 0 ELSE v[1] \div v[2]

\* mutant of scale_octaves: the detail level is not clamped
scale_octaves_unclamped(base, detail_level) ==
    Min(Max(AsU32(FloorF32(MulF32(<<base, 1>>, detail_level))), 1), base)

\* scale_octaves(base, detail_level)
scale_octaves(base, detail_level) ==
    LET detail == ClampF32(detail_level, Rat(2, 5), Rat(1, 1))
        scaled == AsU32(FloorF32(MulF32(<<base, 1>>, detail)))
    IN  Min(Max(scaled, 1), base)

\* f32 division by a divisor that is neither zero nor NaN
DivF32(a, b) == IF a = NaN THEN NaN ELSE Rat(a[1] * b[2], a[2] * b[1])

\* Color::to_float: the channels as fractions of 255
to_float(c) == <<Rat(c[1], 255), Rat(c[2], 255), Rat(c[3], 255)>>

\* one channel of Color::from_float: clamped to [0, 1], scaled by 255 and rounded
FromFloat(v) ==
    LET t == ClampF32(v, <<0, 1>>, <<1, 1>>)
    IN  AsU32(FloorF32(AddF32(MulF32(t, <<255, 1>>), Rat(1, 2))))

\* Color::from_float
from_float(r, g, b) == <<FromFloat(r), FromFloat(g), FromFloat(b)>>

\* the loop of mix_colors_multi over colors.iter().zip(weights.iter()), from
\* pair k on; acc is <<r, g, b, total_weight>>
RECURSIVE MixLoop(_, _, _, _)
MixLoop(colors, weights, k, acc) ==
    IF k > Min(Len(colors), Len(weights)) THEN acc
    ELSE LET c == to_float(colors[k])
             weight == weights[k]
         IN  MixLoop(colors, weights, k + 1,
                     <<AddF32(acc[1], MulF32(c[1], weight)),
                       AddF32(acc[2], MulF32(c[2], weight)),
                       AddF32(acc[3], MulF32(c[3], weight)),
                       AddF32(acc[4], weight)>>)

\* mutant of mix_colors_multi: the fallback is black, not the first colour
mix_colors_multi_black(colors, weights) ==
    LET acc == MixLoop(colors, weights, 1, <<<<0, 1>>, <<0, 1>>, <<0, 1>>, <<0, 1>>>>)
    IN  IF LessF32(<<0, 1>>, acc[4])
        THEN [panic |-> FALSE,
              ret |-> from_float(DivF32(acc[1], acc[4]), DivF32(acc[2], acc[4]),
                                 DivF32(acc[3], acc[4]))]
        ELSE [panic |-> FALSE, ret |-> BLACK]

\* mix_colors_multi(colors, weights); colors[0] on an empty slice panics
mix_colors_multi(colors, weights) ==
    LET acc == MixLoop(colors, weights, 1, <<<<0, 1>>, <<0, 1>>, <<0, 1>>, <<0, 1>>>>)
    IN  IF LessF32(<<0, 1>>, acc[4])
        THEN [panic |-> FALSE,
              ret |-> from_float(DivF32(acc[1], acc[4]), DivF32(acc[2], acc[4]),
                                 DivF32(acc[3], acc[4]))]
        ELSE IF colors = <<>> THEN [panic |-> TRUE, ret |-> <<>>]
        ELSE [panic |-> FALSE, ret |-> colors[1]]

\* smoothstep(t)
smoothstep(t) ==
    LET c == ClampF32(t, <<0, 1>>, <<1, 1>>)
    IN  MulF32(MulF32(c, c), SubF32(<<3, 1>>, MulF32(<<2, 1>>, c)))

\* c1 * (1 - t) + c2 * t on one channel
Lerp(a, b, t) == AddF32(MulF32(a, SubF32(<<1, 1>>, t)), MulF32(b, t))

\* mutant of mix_color: t goes through the curve 3t^2 - 2t^3 without being clamped
mix_color_unclamped(c1, c2, t) ==
    LET s == MulF32(MulF32(t, t), SubF32(<<3, 1>>, MulF32(<<2, 1>>, t)))
        f1 == to_float(c1)
        f2 == to_float(c2)
    IN  from_float(Lerp(f1[1], f2[1], s), Lerp(f1[2], f2[2], s), Lerp(f1[3], f2[3], s))

\* mix_color(c1, c2, t)
mix_color(c1, c2, t) ==
    LET s == smoothstep(ClampF32(t, <<0, 1>>, <<1, 1>>))
        f1 == to_float(c1)
        f2 == to_float(c2)
    IN  from_float(Lerp(f1[1], f2[1], s), Lerp(f1[2], f2[2], s), Lerp(f1[3], f2[3], s))

\* (x * 12.9898 + y * 78.233 + z * 45.164).sin() * 43758.5453 of noise, as the
\* f32 arithmetic gives it at the lattice points noise is called on, counted in
\* units of 1/256 and cut toward zero
SineTable ==
    {
     <<-384, 128, 256, 1289847>>, <<-384, 128, 257, 10785417>>, <<-384, 129, 256, 2116105>>, <<-384, 129, 257, -9375893>>,
     <<-383, 128, 256, 5752357>>, <<-383, 128, 257, 11076012>>, <<-383, 129, 256, -2595503>>, <<-383, 129, 257, -11067527>>,
     <<-192, 64, 128, 645998>>, <<-192, 64, 129, 10592900>>, <<-192, 65, 128, 2757556>>, <<-192, 65, 129, -9000259>>,
     <<-191, 64, 128, 5188461>>, <<-191, 64, 129, 11154265>>, <<-191, 65, 128, -1941219>>, <<-191, 65, 129, -10944602>>,
     <<-96, 32, 64, 323133>>, <<-96, 32, 65, 10483376>>, <<-96, 33, 64, 3074859>>, <<-96, 33, 65, -8800741>>,
     <<-95, 32, 64, 4894998>>, <<-95, 32, 65, 11179827>>, <<-95, 33, 64, -1627578>>, <<-95, 33, 65, -10872470>>,
     <<-48, 16, 32, 161583>>, <<-48, 16, 33, 10425336>>, <<-48, 17, 32, 3227298>>, <<-48, 17, 33, -8701576>>,
     <<-47, 16, 32, 4751624>>, <<-47, 16, 33, 11188735>>, <<-47, 17, 32, -1464828>>, <<-47, 17, 33, -10831727>>,
     <<-24, 8, 16, 80793>>, <<-24, 8, 17, 10395502>>, <<-24, 9, 16, 3305889>>, <<-24, 9, 17, -8649598>>,
     <<-23, 8, 16, 4677093>>, <<-23, 8, 17, 11192516>>, <<-23, 9, 16, -1384689>>, <<-23, 9, 17, -10810481>>,
     <<-12, 4, 8, -40397>>, <<-12, 4, 9, -10380125>>, <<-12, 5, 8, -3344465>>, <<-12, 5, 9, 8623434>>,
     <<-11, 4, 8, -4639732>>, <<-11, 4, 9, -11194122>>, <<-11, 5, 8, 1343914>>, <<-11, 5, 9, 10799821>>,
     <<-6, 2, 4, 11202170>>, <<-6, 2, 5, 4230836>>, <<-6, 3, 4, -10685134>>, <<-6, 3, 5, -7166002>>,
     <<-5, 2, 4, 10204520>>, <<-5, 2, 5, -404844>>, <<-5, 3, 4, -11123728>>, <<-5, 3, 5, -2995176>>,
     <<-3, 1, 2, -7928281>>, <<-3, 1, 3, -10330039>>, <<-3, 2, 2, 5167820>>, <<-3, 2, 3, 11156453>>,
     <<-2, 0, 1, 3681290>>, <<-2, 0, 2, 11185710>>, <<-2, 1, 1, -313977>>, <<-2, 1, 2, -10479903>>,
     <<-2, 1, 3, -7637092>>, <<-2, 2, 2, 8795282>>, <<-2, 2, 3, 9755718>>, <<-1, 0, 1, 7703413>>,
     <<-1, 0, 2, 10447410>>, <<-1, 1, 1, -4887295>>, <<-1, 1, 2, -11180413>>, <<0, 0, 0, 0>>,
     <<0, 0, 1, 10364868>>, <<0, 1, 0, 3383324>>, <<0, 1, 1, -8597375>>, <<0, 2, 0, -6450650>>,
     <<0, 2, 1, 6026894>>, <<0, 3, 0, 8915491>>, <<0, 3, 1, -2893507>>, <<0, 4, 0, -10547633>>,
     <<0, 4, 1, -510130>>, <<0, 5, 0, 11194635>>, <<0, 5, 1, 3866122>>, <<0, 8, 0, -7105312>>,
     <<0, 8, 1, -10708512>>, <<0, 9, 0, 4158153>>, <<0, 9, 1, 11201754>>, <<0, 16, 0, 10986294>>,
     <<0, 16, 1, 6192154>>, <<0, 17, 0, -9812370>>, <<0, 17, 1, -8723082>>, <<0, 32, 0, 4293009>>,
     <<0, 32, 1, -7945478>>, <<0, 33, 0, -7218330>>, <<0, 33, 1, 5188520>>, <<0, 64, 0, -7930503>>,
     <<0, 64, 1, 4312605>>, <<0, 65, 0, 9950164>>, <<0, 65, 1, -987630>>, <<0, 128, 0, -11202157>>,
     <<0, 128, 1, -4273397>>, <<0, 129, 0, 10672373>>, <<0, 129, 1, 7197896>>, <<0, 256, 0, 52976>>,
     <<0, 256, 1, -10344918>>, <<0, 257, 0, -3439971>>, <<0, 257, 1, 8559568>>, <<0, 512, 0, -105951>>,
     <<0, 512, 1, 10324477>>, <<0, 513, 0, 3469553>>, <<0, 513, 1, -8539474>>, <<1, 0, 0, 4602865>>,
     <<1, 0, 1, 11195585>>, <<1, 1, 0, -1303376>>, <<1, 1, 1, -10788929>>, <<1, 2, 0, -2117753>>,
     <<1, 2, 1, 9374600>>, <<1, 3, 0, 5341171>>, <<1, 3, 1, -7084693>>, <<1, 4, 0, -8065728>>,
     <<1, 4, 1, 4133081>>, <<1, 5, 0, 10036954>>, <<1, 5, 1, -795443>>, <<1, 8, 0, -10036335>>,
     <<1, 8, 1, -8411371>>, <<1, 9, 0, 8064997>>, <<1, 9, 1, 10252948>>, <<1, 16, 0, 10915486>>,
     <<1, 16, 1, 1810150>>, <<1, 17, 0, -11166312>>, <<1, 17, 1, -5065393>>, <<1, 32, 0, -336969>>,
     <<1, 32, 1, -10488247>>, <<1, 33, 0, -3061546>>, <<1, 33, 1, 8809298>>, <<1, 64, 0, -3979823>>,
     <<1, 64, 1, 8179422>>, <<1, 65, 0, 6957378>>, <<1, 65, 1, -5484818>>, <<1, 128, 0, -10221734>>,
     <<1, 128, 1, 363651>>, <<1, 129, 0, 11128090>>, <<1, 129, 1, 3030594>>, <<1, 256, 0, -4558956>>,
     <<1, 256, 1, -11197113>>, <<1, 257, 0, 1249131>>, <<1, 257, 1, 10774272>>, <<1, 512, 0, 4490478>>,
     <<1, 512, 1, 11199116>>, <<1, 513, 0, -1196471>>, <<1, 513, 1, -10759648>>, <<2, 0, 0, 8392726>>,
     <<2, 0, 1, 10048835>>, <<2, 1, 0, -5759862>>, <<2, 1, 1, -11074802>>, <<2, 2, 0, 2589047>>,
     <<2, 2, 1, 11066393>>, <<2, 3, 0, 823411>>, <<2, 3, 1, -10024470>>, <<2, 4, 0, -4159130>>,
     <<2, 4, 1, 8046243>>, <<2, 5, 0, 7106391>>, <<2, 5, 1, -5316506>>, <<3, 0, 0, 10700183>>,
     <<3, 0, 1, 7127101>>, <<3, 1, 0, -9199038>>, <<3, 1, 1, -9404519>>, <<3, 2, 0, 6838698>>,
     <<3, 2, 1, 10803563>>, <<3, 3, 0, -3839470>>, <<3, 3, 1, -11193557>>, <<3, 4, 0, 481775>>,
     <<3, 4, 1, 10538038>>, <<3, 5, 0, 2920917>>, <<3, 5, 1, -8898277>>, <<4, 0, 0, 11117662>>,
     <<4, 0, 1, 2946634>>, <<4, 1, 0, -11013306>>, <<4, 1, 1, -6073207>>, <<4, 4, 0, 5037900>>,
     <<4, 4, 1, 11168680>>, <<4, 5, 0, -1780757>>, <<4, 5, 1, -10908598>>, <<4, 8, 0, -7723685>>,
     <<4, 8, 1, 4577354>>, <<4, 9, 0, 9813386>>, <<4, 9, 1, -1275945>>, <<5, 0, 0, 9571414>>,
     <<5, 0, 1, -1754445>>, <<5, 1, 0, -10882331>>, <<5, 1, 1, -1669059>>, <<5, 4, 0, 8704153>>,
     <<5, 4, 1, 9826537>>, <<5, 5, 0, -6167888>>, <<5, 5, 1, -10992074>>, <<5, 8, 0, -3708266>>,
     <<5, 8, 1, 8373772>>, <<5, 9, 0, 6727392>>, <<5, 9, 1, -5735647>>, <<8, 0, 0, -2726355>>,
     <<8, 0, 1, -11087441>>, <<8, 1, 0, -682643>>, <<8, 1, 1, 10086646>>, <<8, 8, 0, 8999374>>,
     <<8, 8, 1, 9586131>>, <<8, 9, 0, -6564630>>, <<8, 9, 1, -10888950>>, <<8, 16, 0, -11188602>>,
     <<8, 16, 1, -3733426>>, <<8, 17, 0, 10832763>>, <<8, 17, 1, 6749792>>, <<9, 0, 0, -6950034>>,
     <<9, 0, 1, -10765357>>, <<9, 1, 0, 3972024>>, <<9, 1, 1, 11198216>>, <<9, 8, 0, 10945596>>,
     <<9, 8, 1, 6357900>>, <<9, 9, 0, -9714620>>, <<9, 9, 1, -8846382>>, <<9, 16, 0, -9974139>>,
     <<9, 16, 1, 935399>>, <<9, 17, 0, 11048484>>, <<9, 17, 1, 2480792>>, <<16, 0, 0, 5288757>>,
     <<16, 0, 1, 11143278>>, <<16, 1, 0, -2059422>>, <<16, 1, 1, -10969448>>, <<16, 16, 0, 10718174>>,
     <<16, 16, 1, 1052808>>, <<16, 17, 0, -11201414>>, <<16, 17, 1, -4370418>>, <<16, 32, 0, -1101729>>,
     <<16, 32, 1, -10732754>>, <<16, 33, 0, -2317646>>, <<16, 33, 1, 9261800>>, <<17, 0, 0, 8879314>>,
     <<17, 0, 1, 9687782>>, <<17, 1, 0, -6402020>>, <<17, 1, 1, -10934048>>, <<17, 16, 0, 8432723>>,
     <<17, 16, 1, -3624673>>, <<17, 17, 0, -10265952>>, <<17, 17, 1, 253059>>, <<17, 32, 0, -5584452>>,
     <<17, 32, 1, -11103474>>, <<17, 33, 0, 2389717>>, <<17, 33, 1, 11032934>>, <<32, 0, 0, 9324452>>,
     <<32, 0, 1, 9281517>>, <<32, 1, 0, -7013935>>, <<32, 1, 1, -10742474>>, <<32, 32, 0, -6233051>>,
     <<32, 32, 1, -10976586>>, <<32, 33, 0, 3129763>>, <<32, 33, 1, 11139463>>, <<32, 64, 0, 2192775>>,
     <<32, 64, 1, 10996314>>, <<32, 65, 0, 1228518>>, <<32, 65, 1, -9836640>>, <<33, 0, 0, 11051923>>,
     <<33, 0, 1, 5884509>>, <<33, 1, 0, -9983504>>, <<33, 1, 1, -8488634>>, <<33, 32, 0, -9506803>>,
     <<33, 32, 1, -9088440>>, <<33, 33, 0, 7272465>>, <<33, 33, 1, 10642283>>, <<33, 64, 0, 6512446>>,
     <<33, 64, 1, 10903706>>, <<33, 65, 0, -3454500>>, <<33, 65, 1, -11170238>>, <<64, 0, 0, 10335385>>,
     <<64, 0, 1, -77071>>, <<64, 1, 0, -11157724>>, <<64, 1, 1, -3310098>>, <<64, 64, 0, 10358152>>,
     <<64, 64, 1, 7875881>>, <<64, 65, 0, -8585377>>, <<64, 65, 1, -9914523>>, <<64, 128, 0, 4300712>>,
     <<64, 128, 1, 11202048>>, <<64, 129, 0, -980245>>, <<64, 129, 1, -10697167>>, <<65, 0, 0, 7647212>>,
     <<65, 0, 1, -4673089>>, <<65, 1, 0, -9762262>>, <<65, 1, 1, 1380317>>, <<65, 64, 0, 11196197>>,
     <<65, 64, 1, 3907685>>, <<65, 65, 0, -10783698>>, <<65, 65, 1, -6896808>>, <<65, 128, 0, 8166871>>,
     <<65, 128, 1, 10192231>>, <<65, 129, 0, -5473581>>, <<65, 129, 1, -11119641>>, <<128, 0, 0, -7972826>>,
     <<128, 0, 1, -10305682>>, <<128, 1, 0, 5224140>>, <<128, 1, 1, 11150469>>, <<128, 128, 0, 7888922>>,
     <<128, 128, 1, -4366739>>, <<128, 129, 0, -9920514>>, <<128, 129, 1, 1051553>>, <<128, 256, 0, 7942275>>,
     <<128, 256, 1, 10322087>>, <<128, 257, 0, -5179644>>, <<128, 257, 1, -11155179>>, <<129, 0, 0, -10501836>>,
     <<129, 0, 1, -7591717>>, <<129, 1, 0, 8834092>>, <<129, 1, 1, 9724229>>, <<129, 128, 0, 3919756>>,
     <<129, 128, 1, -8223146>>, <<129, 129, 0, -6902648>>, <<129, 129, 1, 5545449>>, <<129, 256, 0, 10480868>>,
     <<129, 256, 1, 7634592>>, <<129, 257, 0, -8792952>>, <<129, 257, 1, -9757146>>, <<256, 0, 0, 11201228>>,
     <<256, 0, 1, 4112837>>, <<256, 1, 0, -10722133>>, <<256, 1, 1, -7068610>>, <<256, 256, 0, -11201819>>,
     <<256, 256, 1, -4164607>>, <<256, 257, 0, 10704254>>, <<256, 257, 1, 7115968>>, <<257, 0, 0, 10151990>>,
     <<257, 0, 1, -531195>>, <<257, 1, 0, -11108298>>, <<257, 1, 1, -2874121>>, <<257, 256, 0, -10173126>>,
     <<257, 256, 1, 481005>>, <<257, 257, 0, 11115359>>, <<257, 257, 1, 2927932>>
    }

\* rows <<x, y, z, value>> of the table
ScaledSine(x, y, z) ==
    LET row == CHOOSE r \in SineTable : r[1] = x /\ r[2] = y /\ r[3] = z
    IN  Rat(row[4], 256)

\* f32::trunc on a number: the integer part, rounded toward zero
TruncF32(v) == IF v[1] >= 0 THEN v[1] \div v[2] ELSE -((-v[1]) \div v[2])

\* f32::fract: v - v.trunc()
FractF32(v) == SubF32(v, <<TruncF32(v), 1>>)

\* noise(x, y, z)
noise(x, y, z) == FractF32(ScaledSine(x, y, z))

\* noise_interpolated(x, y, z)
noise_interpolated(x, y, z) ==
    LET xi == FloorF32(x)
        yi == FloorF32(y)
        zi == FloorF32(z)
        u == smoothstep(SubF32(x, xi))
        v == smoothstep(SubF32(y, yi))
        w == smoothstep(SubF32(z, zi))
        n(dx, dy, dz) == noise(xi[1] + dx, yi[1] + dy, zi[1] + dz)
        x00 == Lerp(n(0, 0, 0), n(1, 0, 0), u)
        x10 == Lerp(n(0, 1, 0), n(1, 1, 0), u)
        x01 == Lerp(n(0, 0, 1), n(1, 0, 1), u)
        x11 == Lerp(n(0, 1, 1), n(1, 1, 1), u)
        y0 == Lerp(x00, x10, v)
        y1 == Lerp(x01, x11, v)
    IN  Lerp(y0, y1, w)

\* |v| on an f32 number
AbsF32(v) == <<Abs(v[1]), v[2]>>

\* value / max_value when max_value > 0.0, value otherwise
Normalised(value, max_value) ==
    IF LessF32(<<0, 1>>, max_value) THEN DivF32(value, max_value) ELSE value

\* the loop of fbm, `left` iterations from the state st = [value, amplitude,
\* frequency, max_value]
RECURSIVE FbmLoop(_, _, _, _, _)
FbmLoop(x, y, z, left, st) ==
    IF left = 0 \/ st.value = NaN THEN st
    ELSE LET n == noise_interpolated(MulF32(x, st.frequency), MulF32(y, st.frequency),
                                     MulF32(z, st.frequency))
         IN  FbmLoop(x, y, z, left - 1,
                     [value |-> AddF32(st.value, MulF32(n, st.amplitude)),
                      max_value |-> AddF32(st.max_value, st.amplitude),
                      frequency |-> MulF32(st.frequency, <<2, 1>>),
                      amplitude |-> MulF32(st.amplitude, <<1, 2>>)])

\* fbm(x, y, z, octaves)
fbm(x, y, z, octaves) ==
    LET st == FbmLoop(x, y, z, octaves,
                      [value |-> <<0, 1>>, amplitude |-> <<1, 2>>, frequency |-> <<1, 1>>,
                       max_value |-> <<0, 1>>])
    IN  Normalised(st.value, st.max_value)

\* the loop of turbulence
RECURSIVE TurbulenceLoop(_, _, _, _, _)
TurbulenceLoop(x, y, z, left, st) ==
    IF left = 0 \/ st.value = NaN THEN st
    ELSE LET n == noise_interpolated(MulF32(x, st.frequency), MulF32(y, st.frequency),
                                     MulF32(z, st.frequency))
         IN  TurbulenceLoop(x, y, z, left - 1,
                     [value |-> AddF32(st.value,
                                       MulF32(AbsF32(SubF32(n, <<1, 2>>)), st.amplitude)),
                      max_value |-> AddF32(st.max_value, MulF32(st.amplitude, <<1, 2>>)),
                      frequency |-> MulF32(st.frequency, <<2, 1>>),
                      amplitude |-> MulF32(st.amplitude, <<1, 2>>)])

\* turbulence(x, y, z, octaves)
turbulence(x, y, z, octaves) ==
    LET st == TurbulenceLoop(x, y, z, octaves,
                      [value |-> <<0, 1>>, amplitude |-> <<1, 1>>, frequency |-> <<1, 1>>,
                       max_value |-> <<0, 1>>])
    IN  Normalised(st.value, st.max_value)

\* coordinates of vertex.position in ring_shader are counted in units of 1/PosDen
PosDen == 5

\* radial_dist < p/q for radial_dist = (pos.x * pos.x + pos.z * pos.z).sqrt(): the
\* square root is increasing, so the squares are compared
RadialLess(pos, p, q) == (pos[1] * pos[1] + pos[3] * pos[3]) * q * q < p * p * PosDen * PosDen
RadialGreater(pos, p, q) == (pos[1] * pos[1] + pos[3] * pos[3]) * q * q > p * p * PosDen * PosDen

\* mutant of ring_shader: the inner radius is not tested
ring_shader_no_hole(pos, layers) ==
    IF RadialGreater(pos, 1, 1) \/ Abs(pos[2]) * 20 > PosDen THEN <<0, 0, 0>>
    ELSE layers

\* ring_shader; `layers` is the colour its layers (bands, gaps, particles, density,
\* lighting, back light) give from the time, the light, the camera and the noise
ring_shader(pos, layers) ==
    IF RadialLess(pos, 3, 5) \/ RadialGreater(pos, 1, 1) \/ Abs(pos[2]) * 20 > PosDen
    THEN <<0, 0, 0>>
    ELSE layers

-----------------------------------------------------------------------------
(* Specification of the shader helpers: each step calls one of them *)

\* the largest base octave count handed to scale_octaves
MaxBase == 6
\* detail levels are the fractions n/d with d up to MaxDen, from below 0 to above 1
MaxDen == 5

BaseArgs == 1 .. MaxBase
DetailArgs == {Rat(n, d) : n \in -1 .. MaxDen + 1, d \in 1 .. MaxDen} \cup {NaN}

\* a helper function is called and returns
Evaluated(fn, args, ret) ==
    /\ eval.fn = "none"
    /\ eval' = [fn |-> fn, args |-> args, ret |-> ret, panic |-> FALSE]
    /\ UNCHANGED pvars

call_scale_octaves ==
    \E base \in BaseArgs, detail \in DetailArgs :
        Evaluated("scale_octaves", <<base, detail>>, <<scale_octaves(base, detail)>>)

\* the longest slice of colours or of weights handed to mix_colors_multi
MaxColors == 2

\* the slices of at most n elements of S
Slices(S, n) == UNION {[1 .. k -> S] : k \in 0 .. n}

ColorArgs == {BLACK, RED, WHITE}
WeightArgs == {<<-1, 1>>, <<0, 1>>, <<1, 2>>, <<1, 1>>, NaN}

call_mix_colors_multi ==
    \E colors \in Slices(ColorArgs, MaxColors), weights \in Slices(WeightArgs, MaxColors) :
        LET res == mix_colors_multi(colors, weights)
        IN  /\ eval.fn = "none"
            /\ eval' = [fn |-> "mix_colors_multi", args |-> <<colors, weights>>,
                        ret |-> res.ret, panic |-> res.panic]
            /\ UNCHANGED pvars

MixColors == ColorArgs \cup {<<100, 50, 200>>}
MixArgs == DetailArgs

call_mix_color ==
    \E c1 \in MixColors, c2 \in MixColors, t \in MixArgs :
        Evaluated("mix_color", <<c1, c2, t>>, mix_color(c1, c2, t))

\* the lattice points noise is called on
NoiseArgs == {<<r[1], r[2], r[3]>> : r \in SineTable}

call_noise ==
    \E p \in NoiseArgs : Evaluated("noise", p, noise(p[1], p[2], p[3]))

\* the largest octave count handed to fbm and turbulence
MaxOctaves == 8

\* sample points: lattice points, a point halfway between two of them, and a
\* point with negative and fractional coordinates
SamplePoints ==
    {<<<<0, 1>>, <<0, 1>>, <<0, 1>>>>, <<<<1, 1>>, <<0, 1>>, <<0, 1>>>>,
     <<<<1, 1>>, <<1, 1>>, <<0, 1>>>>, <<<<0, 1>>, <<2, 1>>, <<0, 1>>>>,
     <<<<1, 2>>, <<1, 1>>, <<0, 1>>>>, <<<<-3, 2>>, <<1, 2>>, <<1, 1>>>>}

call_fbm ==
    \E p \in SamplePoints, octaves \in 1 .. MaxOctaves :
        Evaluated("fbm", <<p, octaves>>, fbm(p[1], p[2], p[3], octaves))

call_turbulence ==
    \E p \in SamplePoints, octaves \in 1 .. MaxOctaves :
        Evaluated("turbulence", <<p, octaves>>, turbulence(p[1], p[2], p[3], octaves))

\* positions from inside the hole to beyond the outer radius, on and off the plane
RingCoords == -(PosDen + 1) .. PosDen + 1
RingPositions == {<<x, y, z>> : x \in RingCoords, y \in {-1, 0, 1}, z \in RingCoords}
LayerColors == {WHITE, RED, <<242, 230, 191>>}

call_ring_shader ==
    \E pos \in RingPositions, layers \in LayerColors :
        Evaluated("ring_shader", <<pos, layers>>, ring_shader(pos, layers))

InitShaders == Init

NextShaders ==
    \/ call_scale_octaves
    \/ call_mix_colors_multi
    \/ call_mix_color
    \/ call_noise
    \/ call_fbm
    \/ call_turbulence
    \/ call_ring_shader

SpecShaders == InitShaders /\ [][NextShaders]_vars

-----------------------------------------------------------------------------
(* main.rs: downsample_buffer.  A pixel is the u32 0xAARRGGBB. *)

\* (pixel >> 16) & 0xFF, (pixel >> 8) & 0xFF, pixel & 0xFF
RedOf(pixel) == (pixel \div 65536) % 256
GreenOf(pixel) == (pixel \div 256) % 256
BlueOf(pixel) == pixel % 256

\* mutant of SampleIndex: the row and the column are exchanged
SampleIndexTransposed(hx, hy, high_width) == hx * high_width + hy

\* hy * high_width + hx, the index of a sample in high_res_buffer
SampleIndex(hx, hy, high_width) == hy * high_width + hx

\* the loops over dy in 0..scale_y and dx in 0..scale_x for the output pixel
\* (x, y), from the k-th pair (dy, dx) on; acc is [r_sum, g_sum, b_sum, count, panic]
RECURSIVE BlockLoop(_, _, _, _, _, _, _, _, _)
BlockLoop(buf, high_width, high_height, scale_x, scale_y, x, y, k, acc) ==
    IF k >= scale_x * scale_y \/ acc.panic THEN acc
    ELSE LET dy == k \div scale_x
             dx == k % scale_x
             hx == x * scale_x + dx
             hy == y * scale_y + dy
             idx == SampleIndex(hx, hy, high_width)
         IN  BlockLoop(buf, high_width, high_height, scale_x, scale_y, x, y, k + 1,
                 IF hx < high_width /\ hy < high_height
                 THEN IF idx \in DOMAIN buf
                      THEN [r_sum |-> acc.r_sum + RedOf(buf[idx]),
                            g_sum |-> acc.g_sum + GreenOf(buf[idx]),
                            b_sum |-> acc.b_sum + BlueOf(buf[idx]),
                            count |-> acc.count + 1, panic |-> FALSE]
                      ELSE [acc EXCEPT !.panic = TRUE]
                 ELSE acc)

\* the pixel downsample_buffer stores at (x, y): the average when a sample was
\* read, the initial 0 otherwise; panic when a sample index was out of range
LowPixel(buf, high_width, high_height, scale_x, scale_y, x, y) ==
    LET acc == BlockLoop(buf, high_width, high_height, scale_x, scale_y, x, y, 0,
                         [r_sum |-> 0, g_sum |-> 0, b_sum |-> 0, count |-> 0,
                          panic |-> FALSE])
    IN  IF acc.panic THEN -1
        ELSE IF acc.count > 0
        THEN ((acc.r_sum \div acc.count) % 256) * 65536
             + ((acc.g_sum \div acc.count) % 256) * 256
             + ((acc.b_sum \div acc.count) % 256)
        ELSE 0

\* downsample_buffer(high_res_buffer, high_width, high_height, low_width, low_height)
downsample_buffer(high_res_buffer, high_width, high_height, low_width, low_height) ==
    LET scale_x == high_width \div low_width
        scale_y == high_height \div low_height
        low == [i \in 0 .. low_width * low_height - 1 |->
                   LowPixel(high_res_buffer, high_width, high_height, scale_x, scale_y,
                            i % low_width, i \div low_width)]
    IN  [panic |-> \E i \in DOMAIN low : low[i] = -1, ret |-> low]

-----------------------------------------------------------------------------
(* Specification of the presentation: downsample_buffer called on a buffer *)

\* the largest width and height of the high-resolution buffer
MaxHigh == 4
\* the largest width and height of the low-resolution buffer
MaxLow == 3

\* pixel values: the background 0x000011, and colours with every channel set
PixelValues == <<17, 16711680, 33521728, 8454143, 16777215>>

\* high-resolution buffers: pixel i holds the value number i * stride + offset
HighBuffer(high_width, high_height, stride, offset) ==
    [i \in 0 .. high_width * high_height - 1 |->
        PixelValues[((i * stride + offset) % Len(PixelValues)) + 1]]

call_downsample_buffer ==
    \E high_width \in 1 .. MaxHigh, high_height \in 1 .. MaxHigh,
       low_width \in 1 .. MaxLow, low_height \in 1 .. MaxLow,
       stride \in {1, 2}, offset \in {0, 1} :
        LET buf == HighBuffer(high_width, high_height, stride, offset)
            res == downsample_buffer(buf, high_width, high_height, low_width, low_height)
        IN  /\ eval.fn = "none"
            /\ eval' = [fn |-> "downsample_buffer",
                        args |-> <<buf, high_width, high_height, low_width, low_height>>,
                        ret |-> <<res.ret>>, panic |-> res.panic]
            /\ UNCHANGED pvars

InitDown == Init

NextDown ==
    \/ call_downsample_buffer

SpecDown == InitDown /\ [][NextDown]_vars

-----------------------------------------------------------------------------
(* shaders.rs: vertex_shader.  A matrix is the tuple of its rows; the entries  *)
(* of the uniforms and of the vertex are whole numbers.  A quotient is a       *)
(* fraction <<n, d>>, or <<1, 0>>, <<-1, 0>> (the infinities) or NaN.          *)

Sgn(a) == IF a > 0 THEN 1 ELSE IF a < 0 THEN -1 ELSE 0

\* a / b on whole numbers: x / 0 is an infinity, 0 / 0 is NaN
QuotF32(a, b) == IF b = 0 THEN <<Sgn(a), 0>> ELSE Rat(a, b)

\* a + b and a * b where a or b may be an infinity or NaN
ExtAdd(a, b) ==
    IF a[2] # 0 /\ b[2] # 0 THEN AddF32(a, b)
    ELSE IF a[2] = 0 /\ b[2] = 0 THEN (IF a = b THEN a ELSE NaN)
    ELSE IF a[2] = 0 THEN a ELSE b
ExtMul(a, b) ==
    IF a[2] # 0 /\ b[2] # 0 THEN MulF32(a, b) ELSE <<Sgn(a[1]) * Sgn(b[1]), 0>>

\* the product of two 4x4 matrices, and of a 4x4 matrix and a Vec4
MatMul4(A, B) ==
    [i \in 1 .. 4 |-> [j \in 1 .. 4 |->
        A[i][1] * B[1][j] + A[i][2] * B[2][j] + A[i][3] * B[3][j] + A[i][4] * B[4][j]]]
MatVec4(A, v) ==
    [i \in 1 .. 4 |-> A[i][1] * v[1] + A[i][2] * v[2] + A[i][3] * v[3] + A[i][4] * v[4]]

\* matrix[k] on a Mat4: nalgebra counts the elements column by column
Index4(M, k) == M[(k % 4) + 1][(k \div 4) + 1]

\* Mat3::transpose
Transpose3(M) == [i \in 1 .. 3 |-> [j \in 1 .. 3 |-> M[j][i]]]

\* mutant of Identity3: the zero matrix
Zero3 == <<<<<<0, 1>>, <<0, 1>>, <<0, 1>>>>, <<<<0, 1>>, <<0, 1>>, <<0, 1>>>>,
           <<<<0, 1>>, <<0, 1>>, <<0, 1>>>>>>

\* Mat3::identity()
Identity3 == <<<<<<1, 1>>, <<0, 1>>, <<0, 1>>>>, <<<<0, 1>>, <<1, 1>>, <<0, 1>>>>,
               <<<<0, 1>>, <<0, 1>>, <<1, 1>>>>>>

\* the determinant of a 3x3 matrix
Determinant3(M) ==
    M[1][1] * (M[2][2] * M[3][3] - M[2][3] * M[3][2])
    - M[1][2] * (M[2][1] * M[3][3] - M[2][3] * M[3][1])
    + M[1][3] * (M[2][1] * M[3][2] - M[2][2] * M[3][1])

\* the cofactor of M[i][j], i and j counted modulo 3
Cofactor3(M, i, j) ==
    LET i1 == (i % 3) + 1
        i2 == ((i + 1) % 3) + 1
        j1 == (j % 3) + 1
        j2 == ((j + 1) % 3) + 1
    IN  M[i1][j1] * M[i2][j2] - M[i1][j2] * M[i2][j1]

\* Mat3::try_inverse().unwrap_or(fallback): try_inverse is None when the
\* determinant is zero, the adjugate over the determinant otherwise
InverseOr(M, fallback) ==
    IF Determinant3(M) = 0 THEN fallback
    ELSE [i \in 1 .. 3 |-> [j \in 1 .. 3 |-> Rat(Cofactor3(M, j, i), Determinant3(M))]]

\* the product of a 3x3 matrix of fractions and a Vec3 of whole numbers
MatVec3(N, v) ==
    [i \in 1 .. 3 |->
        AddF32(AddF32(MulF32(N[i][1], <<v[1], 1>>), MulF32(N[i][2], <<v[2], 1>>)),
               MulF32(N[i][3], <<v[3], 1>>))]

\* vertex_shader(vertex, uniforms)
vertex_shader(vertex, uniforms) ==
    LET position == <<vertex.position[1], vertex.position[2], vertex.position[3], 1>>
        model_view == MatMul4(uniforms.view_matrix, uniforms.model_matrix)
        mvp == MatMul4(uniforms.projection_matrix, model_view)
        transformed == MatVec4(mvp, position)
        w == transformed[4]
        ndc_position == <<QuotF32(transformed[1], w), QuotF32(transformed[2], w),
                          QuotF32(transformed[3], w)>>
        screen_position ==
            <<ExtMul(ExtAdd(ndc_position[1], <<1, 1>>), <<600, 1>>),
              ExtMul(ExtAdd(<<1, 1>>, ExtMul(<<-1, 1>>, ndc_position[2])), <<400, 1>>),
              ndc_position[3]>>
        m == uniforms.model_matrix
        model_mat3 == <<<<Index4(m, 0), Index4(m, 1), Index4(m, 2)>>,
                        <<Index4(m, 4), Index4(m, 5), Index4(m, 6)>>,
                        <<Index4(m, 8), Index4(m, 9), Index4(m, 10)>>>>
        normal_matrix == InverseOr(Transpose3(model_mat3), Identity3)
    IN  [position |-> vertex.position,
         normal |-> vertex.normal,
         transformed_position |-> screen_position,
         transformed_normal |-> MatVec3(normal_matrix, vertex.normal)]

\* create_model_matrix(translation, scale, rotation), the rotation angles being
\* given by their sines and cosines
create_model_matrix(translation, scale, sin, cos) ==
    LET rotation_matrix_x == <<<<1, 0, 0, 0>>, <<0, cos[1], -sin[1], 0>>,
                               <<0, sin[1], cos[1], 0>>, <<0, 0, 0, 1>>>>
        rotation_matrix_y == <<<<cos[2], 0, sin[2], 0>>, <<0, 1, 0, 0>>,
                               <<-sin[2], 0, cos[2], 0>>, <<0, 0, 0, 1>>>>
        rotation_matrix_z == <<<<cos[3], -sin[3], 0, 0>>, <<sin[3], cos[3], 0, 0>>,
                               <<0, 0, 1, 0>>, <<0, 0, 0, 1>>>>
        rotation_matrix == MatMul4(MatMul4(rotation_matrix_z, rotation_matrix_y),
                                   rotation_matrix_x)
        transform_matrix == <<<<scale, 0, 0, translation[1]>>, <<0, scale, 0, translation[2]>>,
                              <<0, 0, scale, translation[3]>>, <<0, 0, 0, 1>>>>
    IN  MatMul4(transform_matrix, rotation_matrix)

-----------------------------------------------------------------------------
(* Specification of the vertex stage: vertex_shader called on a vertex *)

\* the largest scale of a model matrix
MaxScale == 2

\* rotations by quarter turns about x, y and z: <<sines, cosines>>
QuarterTurns ==
    {<<<<0, 0, 0>>, <<1, 1, 1>>>>, <<<<1, 0, 0>>, <<0, 1, 1>>>>,
     <<<<0, 0, 1>>, <<1, 1, 0>>>>, <<<<1, -1, 0>>, <<0, 0, 1>>>>}

\* model matrices: those create_model_matrix builds, scale 0 included, a matrix
\* that flattens z, and a shear
ModelMatrices ==
    {create_model_matrix(t, s, r[1], r[2]) :
        t \in {<<0, 0, 0>>, <<1, 0, -2>>}, s \in 0 .. MaxScale, r \in QuarterTurns}
    \cup {<<<<1, 0, 0, 0>>, <<0, 1, 0, 0>>, <<0, 0, 0, -2>>, <<0, 0, 0, 1>>>>,
          <<<<1, 1, 0, 0>>, <<0, 1, 0, 0>>, <<0, 0, 1, -2>>, <<0, 0, 0, 1>>>>}

\* view matrices: the camera at the origin, and moved back by 3
ViewMatrices ==
    {<<<<1, 0, 0, 0>>, <<0, 1, 0, 0>>, <<0, 0, 1, 0>>, <<0, 0, 0, 1>>>>,
     <<<<1, 0, 0, 0>>, <<0, 1, 0, 0>>, <<0, 0, 1, -3>>, <<0, 0, 0, 1>>>>}

\* a perspective projection: w is minus the view-space z
ProjectionMatrix == <<<<1, 0, 0, 0>>, <<0, 1, 0, 0>>, <<0, 0, -1, -1>>, <<0, 0, -1, 0>>>>

VertexArgs ==
    {[position |-> p, normal |-> n] :
        p \in {<<0, 0, 0>>, <<1, 0, 0>>, <<0, 1, -1>>, <<1, -1, -1>>, <<-1, 1, -1>>},
        n \in {<<0, 0, 1>>, <<1, 2, 0>>}}

call_vertex_shader ==
    \E vertex \in VertexArgs, model \in ModelMatrices, view \in ViewMatrices :
        LET uniforms == [model_matrix |-> model, view_matrix |-> view,
                         projection_matrix |-> ProjectionMatrix]
        IN  /\ eval.fn = "none"
            /\ eval' = [fn |-> "vertex_shader", args |-> <<vertex, uniforms>>,
                        ret |-> <<vertex_shader(vertex, uniforms)>>, panic |-> FALSE]
            /\ UNCHANGED pvars

InitVertex == Init

NextVertex ==
    \/ call_vertex_shader

SpecVertex == InitVertex /\ [][NextVertex]_vars

-----------------------------------------------------------------------------
(* main.rs: the parallel stage of render, worker by worker.  Each triangle of  *)
(* triangles.par_iter() is taken by a worker, which rasterizes it and shades   *)
(* its fragments; collect() returns when every worker is done.                 *)

\* the worker of triangle i calls triangle(): its fragments, not shaded yet
worker_rasterize(i) ==
    /\ pc = "assembled"
    /\ i \in 1 .. Len(triangles)
    /\ \A w \in work : w.tri # i
    /\ work' = work \cup {[tri |-> i, st |-> "rasterized",
                           frags |-> Rasterize(triangles[i], BLACK)]}
    /\ UNCHANGED <<fbvars, rvars, eval, main>>

\* the worker of triangle i maps the shader over its fragments
worker_shade(i, color) ==
    /\ pc = "assembled"
    /\ \E w \in work :
          /\ w.tri = i /\ w.st = "rasterized"
          /\ work' = (work \ {w}) \cup
                     {[tri |-> i, st |-> "shaded",
                       frags |-> [k \in 1 .. Len(w.frags) |->
                                     [w.frags[k] EXCEPT !.color = color]]]}
    /\ UNCHANGED <<fbvars, rvars, eval, main>>

\* mutant of AllShaded: one finished worker is enough
SomeShaded(w, n) == n = 0 \/ \E r \in w : r.st = "shaded"

\* collect() may return: the worker of every triangle has shaded its fragments
AllShaded(w, n) == \A i \in 1 .. n : \E r \in w : r.tri = i /\ r.st = "shaded"

\* the fragments of the finished workers from triangle k on, in triangle order
RECURSIVE Collected(_, _, _)
Collected(w, k, n) ==
    IF k > n THEN <<>>
    ELSE IF \E r \in w : r.tri = k /\ r.st = "shaded"
         THEN (CHOOSE r \in w : r.tri = k /\ r.st = "shaded").frags \o Collected(w, k + 1, n)
         ELSE Collected(w, k + 1, n)

\* render: collect() returns the fragments and the write loop begins
render_collect ==
    /\ pc = "assembled"
    /\ AllShaded(work, Len(triangles))
    /\ fragments' = Collected(work, 1, Len(triangles))
    /\ work' = {r \in work : r.st # "shaded"}
    /\ fi' = 1
    /\ pc' = IF fragments' = <<>> THEN "idle" ELSE "writing"
    /\ triangles' = IF fragments' = <<>> THEN <<>> ELSE triangles
    /\ UNCHANGED <<fbvars, eval, main>>

-----------------------------------------------------------------------------
(* Specification of the parallel render: the workers of one render call run in *)
(* any order and the write loop follows them                                   *)

\* streams of two triangles P, Q, R, front-facing or reversed, the second at
\* another depth than the first
ParStreams ==
    {[k \in 1 .. 6 |-> Vertex(m[k], IF k <= 3 THEN z ELSE MaxZ + 1 - z)] :
        m \in {<<RenderP, RenderQ, RenderR, RenderP, RenderQ, RenderR>>,
               <<RenderP, RenderQ, RenderR, RenderP, RenderR, RenderQ>>},
        z \in {1, MaxZ}}

InitPar == Init

NextPar ==
    \/ pc = "idle" /\ clear /\ UNCHANGED <<rvars, ovars, main>>
    \/ \E tv \in ParStreams : render_assemble(tv) /\ UNCHANGED main
    \/ \E i \in 1 .. Len(triangles) : worker_rasterize(i)
    \/ \E i \in 1 .. Len(triangles), c \in FragColors : worker_shade(i, c)
    \/ render_collect
    \/ render_write /\ UNCHANGED main

SpecPar == InitPar /\ [][NextPar]_vars

-----------------------------------------------------------------------------
(* Properties *)

\* depth a is strictly nearer than depth b
Closer(a, b) == a[2] # 0 /\ (b[2] = 0 \/ FracLess(a[1], a[2], b[1], b[2]))

\* the step appends a drawing call to the history
Drew == hist' = Append(hist, call')

\* the drawing call c is a depth-tested write at an in-bounds pixel
IsFragment(c) == c.op = "draw_fragment" /\ c.x < width /\ c.y < height

\* C1: two fragments at one in-bounds pixel with depths d1 < d2, drawn through the
\* depth test into a cleared framebuffer, leave the pixel with the colour of the
\* d1 fragment and the depth d1, whichever of the two is drawn first.
C1_ClosestWins ==
    (/\ Len(hist) = 2
     /\ IsFragment(hist[1]) /\ IsFragment(hist[2])
     /\ hist[1].x = hist[2].x /\ hist[1].y = hist[2].y
     /\ (Closer(hist[1].depth, hist[2].depth) \/ Closer(hist[2].depth, hist[1].depth)))
    => LET near == IF Closer(hist[1].depth, hist[2].depth) THEN hist[1] ELSE hist[2]
           idx == near.y * width + near.x
       IN  color_buffer[idx] = near.color /\ depth_buffer[idx] = near.depth

\* the far fragment was drawn after the near one, in another colour, and lost
C1_Witness ==
    /\ Len(hist) = 2
    /\ IsFragment(hist[1]) /\ IsFragment(hist[2])
    /\ hist[1].x = hist[2].x /\ hist[1].y = hist[2].y
    /\ Closer(hist[1].depth, hist[2].depth) /\ hist[2].depth # Infinity
    /\ hist[1].color # hist[2].color
    /\ color_buffer[hist[1].y * width + hist[1].x] = hist[1].color

\* the depth of every fragment of a triangle whose three vertices share one depth
FlatDepth(tri) == <<tri[1].z, 1>>

C2_Step ==
    /\ (Drew /\ call'.op = "test_and_set_depth" /\ call'.x < width /\ call'.y < height)
       => LET idx == call'.y * width + call'.x
          IN  IF Closer(call'.depth, depth_buffer[idx])
              THEN call'.ret /\ depth_buffer' = [depth_buffer EXCEPT ![idx] = call'.depth]
              ELSE ~call'.ret /\ depth_buffer' = depth_buffer
    /\ (Drew /\ call'.op = "draw_fragment" /\ call'.x < width /\ call'.y < height)
       => LET idx == call'.y * width + call'.x
          IN  IF Closer(call'.depth, depth_buffer[idx])
              THEN call'.ret /\ color_buffer'[idx] = call'.color
              ELSE ~call'.ret /\ color_buffer' = color_buffer /\ depth_buffer' = depth_buffer
    /\ (Drew /\ call'.op = "triangle_filled"
             /\ call'.tri[1].z = call'.tri[2].z /\ call'.tri[2].z = call'.tri[3].z)
       => \A i \in Pixels :
              ~Closer(FlatDepth(call'.tri), depth_buffer[i])
              => color_buffer'[i] = color_buffer[i] /\ depth_buffer'[i] = depth_buffer[i]

\* C2: test_and_set_depth returns true and stores the depth exactly when the depth
\* is strictly less than the stored one, and otherwise returns false and leaves
\* the depth buffer as it is; a fragment of triangle_filled writes no colour at a
\* pixel whose stored depth is less than or equal to the fragment's.
C2_StrictDepthTest == [][C2_Step]_vars

\* a depth equal to the stored one was handed to test_and_set_depth and refused
C2_Witness ==
    /\ Len(hist) = 2
    /\ call = hist[2]
    /\ call.op = "test_and_set_depth" /\ call.x < width /\ call.y < height
    /\ ~call.ret
    /\ call.depth # Infinity
    /\ depth_buffer[call.y * width + call.x] = call.depth

\* C3: between two clear() calls the depth stored at a pixel never increases,
\* whatever drawing call is made.
C3_DepthNeverIncreases ==
    [][hist' # <<>> => \A i \in Pixels : ~Closer(depth_buffer[i], depth_buffer'[i])]_vars

\* a triangle was filled and a nearer depth was then stored at one of its pixels
C3_Witness ==
    /\ Len(hist) = 2
    /\ hist[1].op = "triangle_filled"
    /\ hist[2].op = "test_and_set_depth" /\ hist[2].ret
    /\ \E i \in Pixels : color_buffer[i] # background_color /\ depth_buffer[i] = hist[2].depth

\* the step is a clear()
ClearStep ==
    /\ call'.op = "clear" /\ hist' = <<>>
    /\ background_color' = background_color /\ current_color' = current_color
    /\ pc' = pc

\* the k-th drawing call since clear() is the first to test the depth of its pixel
FirstAtPixel(k) ==
    /\ hist[k].op \in {"draw_fragment", "test_and_set_depth"}
    /\ hist[k].x < width /\ hist[k].y < height
    /\ \A j \in 1 .. (k - 1) :
          /\ hist[j].op \in {"draw_fragment", "test_and_set_depth"}
          /\ <<hist[j].x, hist[j].y>> # <<hist[k].x, hist[k].y>>

\* C4: after clear() every depth is +infinity and every pixel has the configured
\* background colour, whatever was drawn before; so the first in-bounds fragment
\* with a finite depth at a pixel after clear() is accepted.
C4_ClearResets ==
    /\ [][ClearStep => \A i \in Pixels : /\ depth_buffer'[i] = Infinity
                                         /\ color_buffer'[i] = background_color']_vars
    /\ [](\A k \in 1 .. Len(hist) :
             (FirstAtPixel(k) /\ hist[k].depth # Infinity) => hist[k].ret)

\* the framebuffer was cleared to a red background and the first fragment drawn
\* after it was accepted
C4_Witness ==
    /\ Len(hist) = 1
    /\ background_color = RED
    /\ IsFragment(hist[1]) /\ hist[1].ret /\ hist[1].color = WHITE
    /\ \A i \in Pixels : i # hist[1].y * width + hist[1].x => color_buffer[i] = RED

\* C9: set_pixel, set_pixel_color and test_and_set_depth called with x >= width or
\* y >= height leave both buffers as they are, test_and_set_depth returning false,
\* and no buffer is ever indexed outside 0 .. width*height - 1.
C9_BoundsChecked ==
    /\ [][(/\ Drew
           /\ call'.op \in {"set_pixel", "set_pixel_color", "test_and_set_depth"}
           /\ (call'.x >= width \/ call'.y >= height))
          => /\ color_buffer' = color_buffer
             /\ depth_buffer' = depth_buffer
             /\ ~call'.ret]_vars
    /\ []~panicked

\* test_and_set_depth was called one column past the right edge, on a row of the image
C9_Witness ==
    /\ hist # <<>>
    /\ call.op = "test_and_set_depth"
    /\ call.x = width /\ call.y < height
    /\ call.depth # Infinity
    /\ ~call.ret

\* the step is a call of triangle_filled
FillStep == Drew /\ call'.op = "triangle_filled"

\* the position of vertex k of a triangle
Pos(tri, k) == <<tri[k].x, tri[k].y>>

\* the signed area that triangle_filled computes for a triangle
AreaOf(tri) == edge_function(Pos(tri, 1), Pos(tri, 2), Pos(tri, 3))

\* the three edge values of a triangle at the centre of pixel (x, y)
EdgeValues(tri, x, y) ==
    LET p == <<x * Scale + Half, y * Scale + Half>>
    IN  <<edge_function(Pos(tri, 2), Pos(tri, 3), p),
          edge_function(Pos(tri, 3), Pos(tri, 1), p),
          edge_function(Pos(tri, 1), Pos(tri, 2), p)>>

\* the area is zero or below the epsilon 1e-5 of a square pixel
NearZero(area) == Abs(area) < Scale /\ Abs(area) * EpsInv < Scale * Scale

\* every pixel has the background colour and the depth +infinity
Cleared ==
    \A i \in Pixels : color_buffer[i] = background_color /\ depth_buffer[i] = Infinity

\* the triangle with the screen positions (0,0), (4,0), (0,4)
E2E(tri) ==
    /\ Pos(tri, 1) = <<0, 0>>
    /\ Pos(tri, 2) = <<4 * Scale, 0>>
    /\ Pos(tri, 3) = <<0, 4 * Scale>>

\* the centre of pixel (x, y) lies in the triangle (0,0), (4,0), (0,4), edges included
E2EInside(x, y) ==
    LET cx == x * Scale + Half
        cy == y * Scale + Half
    IN  cx >= 0 /\ cy >= 0 /\ cx + cy <= 4 * Scale

\* C6: the triangle (0,0), (4,0), (0,4) drawn in one colour into a cleared 4x4
\* framebuffer colours exactly the pixels whose centre (x + 0.5, y + 0.5) is inside
\* it, and every other pixel keeps the background colour.
C6_E2ETriangle ==
    [][(FillStep /\ Cleared /\ width = 4 /\ height = 4 /\ E2E(call'.tri))
       => \A x \in 0 .. 3, y \in 0 .. 3 :
             LET i == y * 4 + x
             IN  IF E2EInside(x, y)
                 THEN color_buffer'[i] = RED /\ depth_buffer'[i] # Infinity
                 ELSE color_buffer'[i] = background_color /\ depth_buffer'[i] = Infinity]_vars

\* the triangle was drawn in red on the black background: (3,0) is red, (3,1) black
C6_Witness ==
    /\ Len(hist) = 1
    /\ call.op = "triangle_filled" /\ E2E(call.tri)
    /\ width = 4 /\ height = 4
    /\ background_color = BLACK
    /\ color_buffer[3] = RED /\ color_buffer[7] = BLACK

\* edge value w agrees in sign with the area, zero agreeing with either sign
AgreesInSign(w, area) == IF area > 0 THEN w >= 0 ELSE w <= 0

C8_DegenerateSkipped ==
    [][(FillStep /\ NearZero(AreaOf(call'.tri)))
       => /\ call'.divs = 0
          /\ color_buffer' = color_buffer
          /\ depth_buffer' = depth_buffer]_vars

\* a triangle of nonzero area below the epsilon, with a vertex on the centre of
\* pixel (0,0), was handed to triangle_filled
C8_Witness ==
    /\ Len(hist) = 1
    /\ call.op = "triangle_filled"
    /\ AreaOf(call.tri) = -1
    /\ \E k \in 1 .. 3 : Pos(call.tri, k) = <<Half, Half>>
    /\ call.divs = 0
    /\ \A i \in Pixels : depth_buffer[i] = Infinity

\* the 2D cross product that render's backface test computes for three vertices
Cross(v0, v1, v2) == (v1.x - v0.x) * (v2.y - v0.y) - (v1.y - v0.y) * (v2.x - v0.x)

\* the winding of the triangle is the reverse of the front-facing one
Reversed(tri) == Len(tri) = 3 /\ Cross(tri[1], tri[2], tri[3]) < 0

Outside(frag) ==
    \/ frag.x < 0
    \/ frag.y < 0
    \/ frag.x >= width * Scale
    \/ frag.y >= height * Scale

\* as stated, C10: the loop of render that writes the fragments discards a fragment
\* whose screen position is outside the framebuffer, changing no pixel
C10_Original ==
    [][(pc = "writing" /\ Outside(fragments[fi]))
       => color_buffer' = color_buffer /\ depth_buffer' = depth_buffer]_vars

-----------------------------------------------------------------------------
(* main.rs: main, the loop that draws and presents one frame per iteration *)

\* the window, in pixels
WinWidth == 1
WinHeight == 1
\* iterations of the loop before the window is closed
MaxFrames == 3

\* the celestial_objects vector holds eight bodies
NumBodies == 8
\* render calls of one frame: the bodies, the moon, saturn's rings, the alien
\* planet's rings
NumRenders == NumBodies + 3

\* 0x000011, the background colour main() sets
NAVY == <<0, 0, 17>>

\* what the k-th render call of a frame draws, k counted from 0
RenderKind(k) ==
    IF k < NumBodies THEN "body"
    ELSE IF k = NumBodies THEN "moon"
    ELSE IF k = NumBodies + 1 THEN "saturn_rings"
    ELSE "alien_rings"

\* the vertices and the shaded colour of the k-th render call: one front-facing
\* triangle whose depth and colour change from call to call
MainStream(k) ==
    [i \in 1 .. 3 |-> Vertex(<<RenderP, RenderQ, RenderR>>[i], 1 + (k % MaxZ))]
MainColor(k) == IF k % 2 = 0 THEN RED ELSE WHITE

\* mutant of Following: the loop goes back to its head after the last render call
FollowingSkipsPresent(pos, rk) ==
    CASE pos = "setup" -> "top"
      [] pos = "top" -> "clear"
      [] pos = "clear" -> "render"
      [] pos = "render" -> IF rk + 1 < NumRenders THEN "render" ELSE "top"
      [] OTHER -> "top"

\* the statement of main() that follows the one at pos; rk is the render call
\* made at pos
Following(pos, rk) ==
    CASE pos = "setup" -> "top"
      [] pos = "top" -> "clear"
      [] pos = "clear" -> "render"
      [] pos = "render" -> IF rk + 1 < NumRenders THEN "render" ELSE "present"
      [] OTHER -> "top"

\* Color::to_hex over the colour buffer: the u32 buffer handed to the window
ToHex(c) == c[1] * 65536 + c[2] * 256 + c[3]
Buffer == [i \in DOMAIN color_buffer |-> ToHex(color_buffer[i])]

\* move_speed and zoom_speed of handle_input
MoveSpeed == 10
ZoomSpeed == 20

\* (self.target - self.position).normalize() as a multiple of the camera's first
\* viewing direction: 1, -1 once the camera is on the other side of its target,
\* and 0 (NaN) when the camera is at its target
Direction(cam) == Sgn(cam.offset)

\* Camera::move_forward, move_right and move_up: position and target move together
move_forward(cam, amount) ==
    [cam EXCEPT !.fwd = @ + Direction(cam) * amount, !.nan = @ \/ cam.offset = 0]
move_right(cam, amount) ==
    [cam EXCEPT !.right = @ + Direction(cam) * amount, !.nan = @ \/ cam.offset = 0]
move_up(cam, amount) == [cam EXCEPT !.up = @ + amount]

\* mutant of zoom_in: the camera is not held at the least distance
zoom_in_unheld(cam, amount) ==
    LET current_distance == Abs(cam.offset)
        adjusted_amount == IF current_distance < 200 THEN amount \div 2
                           ELSE IF current_distance < 500 THEN (amount * 3) \div 4
                           ELSE amount
    IN  [cam EXCEPT !.offset = cam.offset - Direction(cam) * adjusted_amount,
                    !.nan = @ \/ cam.offset = 0]

\* Camera::zoom_in
zoom_in(cam, amount) ==
    LET direction == Direction(cam)
        current_distance == Abs(cam.offset)
        adjusted_amount == IF current_distance < 200 THEN amount \div 2
                           ELSE IF current_distance < 500 THEN (amount * 3) \div 4
                           ELSE amount
        moved == cam.offset - direction * adjusted_amount
        distance == Abs(moved)
    IN  [cam EXCEPT !.offset = IF distance < 80 THEN direction * 80 ELSE moved,
                    !.nan = @ \/ cam.offset = 0]

\* Camera::zoom_out
zoom_out(cam, amount) ==
    LET direction == Direction(cam)
        current_distance == Abs(cam.offset)
        adjusted_amount == IF current_distance > 2000 THEN (amount * 3) \div 2 ELSE amount
        moved == cam.offset + direction * adjusted_amount
        distance == Abs(moved)
    IN  [cam EXCEPT !.offset = IF distance > 4000 THEN direction * 4000 ELSE moved,
                    !.nan = @ \/ cam.offset = 0]

\* one key of handle_input, when it is down
KeyDown(keys, key, cam, moved) == IF key \in keys THEN moved ELSE cam

\* handle_input: the keys are tested in the order W, S, A, D, Q, E, Z, X (the
\* arrow keys, which orbit, are not pressed)
handle_input(keys, camera) ==
    LET c1 == KeyDown(keys, "W", camera, move_forward(camera, MoveSpeed))
        c2 == KeyDown(keys, "S", c1, move_forward(c1, -MoveSpeed))
        c3 == KeyDown(keys, "A", c2, move_right(c2, -MoveSpeed))
        c4 == KeyDown(keys, "D", c3, move_right(c3, MoveSpeed))
        c5 == KeyDown(keys, "Q", c4, move_up(c4, MoveSpeed))
        c6 == KeyDown(keys, "E", c5, move_up(c5, -MoveSpeed))
        c7 == KeyDown(keys, "Z", c6, zoom_in(c6, ZoomSpeed))
    IN  KeyDown(keys, "X", c7, zoom_out(c7, ZoomSpeed))

\* desired_supersample for the camera's distance to its target
DesiredSupersample(distance_to_target) ==
    IF distance_to_target > 1500 THEN 2
    ELSE IF distance_to_target > 600 THEN 1
    ELSE 1

\* mutant of FramebufferSide: the side for the supersample factor 2, whatever the factor
FramebufferSideFixed(window_side, factor) == window_side * 2

\* framebuffer_width = window_width * supersample_factor, and the height likewise
FramebufferSide(window_side, factor) == window_side * factor

\* main() up to the loop: the framebuffer was created with the supersample
\* factor 2, its background colour is set
main_setup ==
    /\ main.pos = "setup"
    /\ set_background_color(NAVY)
    /\ main' = [main EXCEPT !.pos = Following("setup", 0)]
    /\ UNCHANGED <<rvars, ovars>>

\* the head of the loop when the window is closed or Escape is down
main_exit ==
    /\ main.pos = "top"
    /\ pc = "idle"
    /\ main' = [main EXCEPT !.pos = "exited"]
    /\ UNCHANGED <<fbvars, rvars, ovars>>

\* the head of the loop otherwise: handle_input moves the camera, the camera's
\* distance sets the desired supersample factor, and the framebuffer is
\* replaced when the factor changes
main_top(keys) ==
    LET camera == handle_input(keys, main.camera)
        distance_to_target == Abs(camera.offset)
        desired_supersample == DesiredSupersample(distance_to_target)
    IN  /\ main.pos = "top"
        /\ pc = "idle"
        /\ main.frames < MaxFrames
        /\ main' = [main EXCEPT !.pos = Following("top", 0), !.log = <<>>,
                                !.camera = camera,
                                !.factor = desired_supersample,
                                !.realloc = desired_supersample # main.factor]
        /\ IF desired_supersample # main.factor
           THEN /\ width' = FramebufferSide(WinWidth, desired_supersample)
                /\ height' = FramebufferSide(WinHeight, desired_supersample)
                /\ color_buffer' = gen_image_color(width', height', BLACK)
                /\ depth_buffer' = [i \in 0 .. (width' * height' - 1) |-> Infinity]
                /\ background_color' = NAVY
                /\ current_color' = WHITE
                /\ call' = NoCall
                /\ hist' = <<>>
                /\ panicked' = FALSE
           ELSE UNCHANGED fbvars
        /\ UNCHANGED <<rvars, ovars>>

\* framebuffer.clear()
main_clear ==
    /\ main.pos = "clear"
    /\ pc = "idle"
    /\ clear
    /\ main' = [main EXCEPT !.pos = Following("clear", 0), !.rk = 0,
                            !.log = Append(@, "clear")]
    /\ UNCHANGED <<rvars, ovars>>

\* the next render call of the frame begins: the vertex stage and the assembly
main_render ==
    /\ main.pos = "render"
    /\ pc = "idle"
    /\ triangles' = Assemble(MainStream(main.rk), 0)
    /\ pc' = "assembled"
    /\ call' = [NoCall EXCEPT !.op = "render", !.tri = MainStream(main.rk)]
    /\ hist' = Append(hist, call')
    /\ main' = [main EXCEPT !.pos = Following("render", main.rk), !.rk = @ + 1,
                            !.log = Append(@, RenderKind(main.rk))]
    /\ panicked' = (panicked \/ AssemblePanics(MainStream(main.rk)))
    /\ UNCHANGED <<width, height, color_buffer, depth_buffer, background_color,
                   current_color, fragments, fi, ovars>>

\* the render call in progress goes on
main_render_shade == render_shade(MainColor(main.rk)) /\ UNCHANGED main
main_render_write == render_write /\ UNCHANGED main

\* the buffer is handed to the window, downsampled when the factor exceeds 1
main_present ==
    /\ main.pos = "present"
    /\ pc = "idle"
    /\ main' = [main EXCEPT
                   !.pos = Following("present", 0),
                   !.frames = @ + 1,
                   !.log = Append(@, "present"),
                   !.shown = IF main.factor > 1
                             THEN downsample_buffer(Buffer, width, height,
                                                    WinWidth, WinHeight).ret
                             ELSE Buffer]
    /\ UNCHANGED <<fbvars, rvars, ovars>>

-----------------------------------------------------------------------------
(* Specification of the main loop: the window is WinWidth x WinHeight, the
   camera is far or near at every iteration, the window closes after at most
   MaxFrames frames *)

\* the camera's distance when the loop is entered: where main() puts it, and
\* where zooming in earlier frames has brought it, just below and just above
\* the threshold of the supersample factor
MainStarts == {1490, 1510, NoCamera.offset}

\* keys held during a frame: none, zoom in, zoom out, forward
MainKeys == {{}, {"Z"}, {"X"}, {"W"}}

\* the framebuffer has the size of the supersample factor in force: 2 for the
\* camera main() creates, the factor of the camera's distance after earlier frames
InitMain ==
    \E d \in MainStarts :
        /\ FramebufferNew(FramebufferSide(WinWidth, DesiredSupersample(d)),
                          FramebufferSide(WinHeight, DesiredSupersample(d)))
        /\ IdleRender
        /\ main = [NoMain EXCEPT !.camera.offset = d, !.factor = DesiredSupersample(d)]

NextMain ==
    \/ main_setup
    \/ main_exit
    \/ \E keys \in MainKeys : main_top(keys)
    \/ main_clear
    \/ main_render
    \/ main_render_shade
    \/ main_render_write
    \/ main_present

SpecMain == InitMain /\ [][NextMain]_vars

-----------------------------------------------------------------------------
(* Specification of the colour write: triangles that cover the lower-left half
   of the framebuffer, filled with materials whose channels lie inside and
   outside 0..1 *)

\* channel values handed to the shader: from below 0 to above 1.0
ChannelArgs == -1 .. (ChanUnit + 1)

\* the base colour is used by pattern 6; the other patterns are stood for by
\* pattern 0 with the shaded value `shade`
Materials ==
    {[pattern |-> p, base |-> <<v, ChanUnit - v, 0>>, shade |-> <<ChanUnit - v, v, ChanUnit + 1>>] :
        v \in ChannelArgs, p \in {0, 6}}

\* the triangle (0,0), (w,0), (0,h) at the nearest and at the farthest depth
ShadeTris ==
    {<<Vertex(<<0, 0>>, z), Vertex(<<FbWidth * Scale, 0>>, z), Vertex(<<0, FbHeight * Scale>>, z)>> :
        z \in {1, MaxZ}}

\* triangle_filled called with a material; the material and the packed colour
\* are kept for the next call
fill_with_material(t, material) ==
    /\ triangle_filled(t[1], t[2], t[3], material)
    /\ eval' = [fn |-> "triangle_filled", args |-> <<material>>,
                ret |-> <<PackColor(fragment_shader(material))>>, panic |-> FALSE]
    /\ UNCHANGED <<rvars, work, main>>

InitShade == Init

NextShade ==
    \/ clear /\ UNCHANGED <<rvars, ovars, main>>
    \/ \E t \in ShadeTris, material \in Materials : fill_with_material(t, material)

SpecShade == InitShade /\ [][NextShade]_vars

-----------------------------------------------------------------------------
(* Specification of the ring material in render: a triangle that covers the
   lower-left half of the framebuffer is drawn with a body's material or with
   the ring material, in front of or behind what was drawn before *)

\* vertex.position of the triangle's first vertex: at the centre of the hole, on
\* the outer radius, beyond it, and on the outer radius off the equatorial plane
RingProbes == {<<0, 0, 0>>, <<PosDen, 0, 0>>, <<PosDen + 1, 0, 0>>, <<PosDen, 1, 0>>}

\* the colour the layers of the ring material give inside the annulus
RingLayers == <<242, 230, 191>>

\* one front-facing triangle at the nearest or at the farthest depth
RingStreams ==
    {[k \in 1 .. 3 |->
         Vertex(<<RenderO, <<FbWidth * Scale, 0>>, <<0, FbHeight * Scale>>>>[k], z)] :
        z \in {1, MaxZ}}

\* render's parallel stage with get_celestial_shader giving `color` for every
\* fragment of the call; `shader` and `args` name the material function and the
\* position it was given
render_shade_with(shader, args, color) ==
    /\ pc = "assembled"
    /\ fragments' = FlatMap(triangles, 1, color)
    /\ fi' = 1
    /\ pc' = IF fragments' = <<>> THEN "idle" ELSE "writing"
    /\ triangles' = IF fragments' = <<>> THEN <<>> ELSE triangles
    /\ eval' = [fn |-> shader, args |-> args, ret |-> <<color>>, panic |-> FALSE]
    /\ UNCHANGED <<fbvars, work, main>>

InitRing == Init

NextRing ==
    \/ pc = "idle" /\ clear /\ UNCHANGED <<rvars, ovars, main>>
    \/ \E tv \in RingStreams : render_assemble(tv) /\ UNCHANGED main
    \/ render_shade_with("body", <<>>, RED)
    \/ \E pos \in RingProbes :
          render_shade_with("ring_shader", <<pos>>, ring_shader(pos, RingLayers))
    \/ render_write /\ UNCHANGED main

SpecRing == InitRing /\ [][NextRing]_vars

-----------------------------------------------------------------------------
(* Specification of the camera: its zoom and move functions called in any
   order with the step sizes of handle_input *)

\* how far the target is moved either way along each axis, in steps of MoveSpeed
MaxShift == 1

\* the camera's distance at the start: the least and the greatest one, the
\* distances where the zoom step changes, the threshold of the supersample
\* factor, and the distance main() starts with
StartDistances == {80, 199, 200, 500, 1500, 2000, 3995, 4000, NoCamera.offset}

\* the target stays within MaxShift steps of where it was
InReach(cam) ==
    /\ Abs(cam.fwd) <= MaxShift * MoveSpeed
    /\ Abs(cam.right) <= MaxShift * MoveSpeed
    /\ Abs(cam.up) <= MaxShift * MoveSpeed

\* one call of a method of Camera: eval records the method, the distance it
\* found and the distance it left
camera_call(fn, cam) ==
    /\ InReach(cam)
    /\ main' = [main EXCEPT !.camera = cam]
    /\ eval' = [fn |-> fn, args |-> <<Abs(main.camera.offset)>>, ret |-> <<Abs(cam.offset)>>]
    /\ UNCHANGED <<fbvars, rvars, work>>

InitCamera ==
    \E d \in StartDistances :
        /\ FramebufferNew(FbWidth, FbHeight)
        /\ IdleRender
        /\ main = [NoMain EXCEPT !.camera.offset = d]

NextCamera ==
    \/ camera_call("zoom_in", zoom_in(main.camera, ZoomSpeed))
    \/ camera_call("zoom_out", zoom_out(main.camera, ZoomSpeed))
    \/ \E amount \in {MoveSpeed, -MoveSpeed} :
          camera_call("move_forward", move_forward(main.camera, amount))
    \/ \E amount \in {MoveSpeed, -MoveSpeed} :
          camera_call("move_right", move_right(main.camera, amount))
    \/ \E amount \in {MoveSpeed, -MoveSpeed} :
          camera_call("move_up", move_up(main.camera, amount))

SpecCamera == InitCamera /\ [][NextCamera]_vars

-----------------------------------------------------------------------------
(* Properties of the shader helpers *)

\* floor(base * clamp(detail, 0.4, 1.0)) on the fraction detail = n/d, computed
\* by cross-multiplication
ScaledFloor(base, detail) ==
    LET n == detail[1]
        d == detail[2]
    IN  IF 5 * n < 2 * d THEN (2 * base) \div 5
        ELSE IF n > d THEN base
        ELSE (base * n) \div d

\* C11: scale_octaves(base, detail) is floor(base * clamp(detail, 0.4, 1.0))
\* bounded to [1, base]: the result is an integer of 1 .. base, never 0, and
\* scale_octaves(6, 1.0) = 6, scale_octaves(6, 0.4) = 2, scale_octaves(6, 0.0) = 2.
C11_ScaleOctaves ==
    eval.fn = "scale_octaves" =>
        LET base == eval.args[1]
            detail == eval.args[2]
        IN  /\ eval.ret[1] \in 1 .. base
            /\ detail # NaN =>
                   eval.ret[1] = IF ScaledFloor(base, detail) < 1 THEN 1
                              ELSE IF ScaledFloor(base, detail) > base THEN base
                              ELSE ScaledFloor(base, detail)
            /\ base = 6 /\ detail = <<1, 1>> => eval.ret[1] = 6
            /\ base = 6 /\ detail = <<2, 5>> => eval.ret[1] = 2
            /\ base = 6 /\ detail = <<0, 1>> => eval.ret[1] = 2

\* scale_octaves(6, 0.0) was called: the detail level was raised to 0.4
C11_Witness ==
    eval.fn = "scale_octaves" /\ eval.args = <<6, <<0, 1>>>> /\ eval.ret = <<2>>

\* the number of (colour, weight) pairs the blend is made of
Pairs(colors, weights) == IF Len(colors) <= Len(weights) THEN Len(colors) ELSE Len(weights)

\* the sum over the pairs k .. n of weight * channel ch of the colour (ch = 0:
\* of the weight alone), as a fraction <<numerator, denominator>> not reduced
RECURSIVE WeightedSum(_, _, _, _, _)
WeightedSum(colors, weights, ch, k, n) ==
    IF k > n THEN <<0, 1>>
    ELSE LET rest == WeightedSum(colors, weights, ch, k + 1, n)
             w == weights[k]
             c == IF ch = 0 THEN 1 ELSE colors[k][ch]
         IN  <<c * w[1] * rest[2] + rest[1] * w[2], w[2] * rest[2]>>

HasNaN(weights, n) == \E k \in 1 .. n : weights[k] = NaN

\* channel ch of the blend: sum(weight * channel) / sum(weight), the sum of the
\* weights being positive, cut to 0 .. 255 and rounded to the nearest integer
BlendChannel(colors, weights, ch) ==
    LET n == Pairs(colors, weights)
        num == WeightedSum(colors, weights, ch, 1, n)
        den == WeightedSum(colors, weights, 0, 1, n)
        p == num[1] * den[2]
        q == num[2] * den[1]
    IN  IF p <= 0 THEN 0 ELSE IF p >= 255 * q THEN 255 ELSE (2 * p + q) \div (2 * q)

Blend(colors, weights) ==
    <<BlendChannel(colors, weights, 1), BlendChannel(colors, weights, 2),
      BlendChannel(colors, weights, 3)>>

\* the sum of the paired weights is a number and is positive / is zero
PositiveSum(colors, weights) ==
    /\ ~HasNaN(weights, Pairs(colors, weights))
    /\ WeightedSum(colors, weights, 0, 1, Pairs(colors, weights))[1] > 0
ZeroSum(colors, weights) ==
    /\ ~HasNaN(weights, Pairs(colors, weights))
    /\ WeightedSum(colors, weights, 0, 1, Pairs(colors, weights))[1] = 0

Boundary(c1, c2, t, ret) ==
    /\ t[1] <= 0 => ret = c1
    /\ t[1] >= t[2] => ret = c2
    /\ c1 = c2 => ret = c1

C15_Original ==
    eval.fn = "noise" => eval.ret[1] >= 0 /\ eval.ret[1] < eval.ret[2]

\* C14 as stated: for every octave count from 1 through 8 the outputs of fbm and
\* of turbulence lie in [0, 1]
C14_Original ==
    eval.fn \in {"fbm", "turbulence"} => eval.ret[1] >= 0 /\ eval.ret[1] <= eval.ret[2]

\* the square of the radial distance of the position, in units of 1/PosDen^2
Radial2(pos) == pos[1] * pos[1] + pos[3] * pos[3]

\* C16: ring_shader returns the transparent sentinel colour (0,0,0) for every
\* position whose radial distance sqrt(x^2 + z^2) is below the inner radius 0.6 or
\* above the outer radius 1.0, whatever the time, the light position, the camera
\* position and the noise make of the layers.
C16_OutsideAnnulus ==
    eval.fn = "ring_shader" =>
        LET pos == eval.args[1]
        IN  25 * Radial2(pos) < 9 * PosDen * PosDen \/ Radial2(pos) > PosDen * PosDen =>
                eval.ret = <<0, 0, 0>>

\* a position on the ring plane inside the hole, at radial distance 2/5, was
\* shaded with layers that give white: the result is the sentinel
C16_Witness ==
    /\ eval.fn = "ring_shader"
    /\ eval.args[1][2] = 0
    /\ 25 * Radial2(eval.args[1]) = 4 * PosDen * PosDen
    /\ eval.args[2] = WHITE
    /\ eval.ret = <<0, 0, 0>>

-----------------------------------------------------------------------------
(* Properties of the presentation *)

\* the sum of channel ch (1 red, 2 green, 3 blue) over the samples of buf at the
\* columns x0 .. x0 + w - 1 of the rows y0 .. y0 + h - 1, from the k-th sample on
RECURSIVE ChannelSum(_, _, _, _, _, _, _, _)
ChannelSum(buf, high_width, x0, y0, w, h, ch, k) ==
    IF k >= w * h THEN 0
    ELSE LET pixel == buf[(y0 + (k \div w)) * high_width + x0 + (k % w)]
             c == IF ch = 1 THEN (pixel \div 65536) % 256
                  ELSE IF ch = 2 THEN (pixel \div 256) % 256
                  ELSE pixel % 256
         IN  c + ChannelSum(buf, high_width, x0, y0, w, h, ch, k + 1)

\* every sample of the block of output pixel (x, y) lies in the high-resolution
\* buffer
BlockInside(high_width, high_height, scale_x, scale_y, x, y) ==
    \A dx \in 0 .. scale_x - 1, dy \in 0 .. scale_y - 1 :
        /\ x * scale_x + dx < high_width
        /\ y * scale_y + dy < high_height

\* C19: each output pixel (x, y) of downsample_buffer is the per-channel integer
\* average of the scale_x by scale_y block of high-resolution pixels that starts
\* at (x*scale_x, y*scale_y), the scales being the integer ratios of the
\* dimensions, and for every combination of dimensions, exact multiples or not,
\* no sample is read outside the high-resolution buffer.
C19_BlockAverage ==
    eval.fn = "downsample_buffer" =>
        LET buf == eval.args[1]
            high_width == eval.args[2]
            high_height == eval.args[3]
            low_width == eval.args[4]
            low_height == eval.args[5]
            scale_x == high_width \div low_width
            scale_y == high_height \div low_height
            low == eval.ret[1]
            avg(x, y, ch) ==
                ChannelSum(buf, high_width, x * scale_x, y * scale_y, scale_x, scale_y, ch, 0)
                    \div (scale_x * scale_y)
        IN  /\ ~eval.panic
            /\ DOMAIN low = 0 .. low_width * low_height - 1
            /\ \A x \in 0 .. low_width - 1, y \in 0 .. low_height - 1 :
                   /\ BlockInside(high_width, high_height, scale_x, scale_y, x, y)
                   /\ low[y * low_width + x] =
                          IF scale_x * scale_y = 0 THEN 0
                          ELSE avg(x, y, 1) * 65536 + avg(x, y, 2) * 256 + avg(x, y, 3)

\* a 4 by 3 buffer of differing pixels was reduced to 2 by 2: the blocks are 2
\* wide and 1 high, the third row is not sampled, and the first output pixel is
\* the average of the first two pixels
C19_Witness ==
    /\ eval.fn = "downsample_buffer"
    /\ <<eval.args[2], eval.args[3], eval.args[4], eval.args[5]>> = <<4, 3, 2, 2>>
    /\ eval.args[1][0] = 17 /\ eval.args[1][1] = 16711680
    /\ eval.ret[1][0] = 8323080

-----------------------------------------------------------------------------
(* Properties of the vertex stage *)

\* the upper 3x3 block of the model matrix is singular: its rows are dependent,
\* the triple product of the rows being zero
SingularBlock(m) ==
    LET cross == <<m[2][2] * m[3][3] - m[2][3] * m[3][2],
                   m[2][3] * m[3][1] - m[2][1] * m[3][3],
                   m[2][1] * m[3][2] - m[2][2] * m[3][1]>>
    IN  m[1][1] * cross[1] + m[1][2] * cross[2] + m[1][3] * cross[3] = 0

\* C20: when the upper 3x3 block of the model matrix is singular, vertex_shader
\* uses the identity as normal matrix, so the transformed normal is the normal
\* itself, and still returns a vertex; no call of vertex_shader fails.
C20_SingularFallback ==
    eval.fn = "vertex_shader" =>
        LET vertex == eval.args[1]
            out == eval.ret[1]
        IN  /\ ~eval.panic
            /\ out.position = vertex.position /\ out.normal = vertex.normal
            /\ SingularBlock(eval.args[2].model_matrix) =>
                   out.transformed_normal =
                       <<<<vertex.normal[1], 1>>, <<vertex.normal[2], 1>>,
                         <<vertex.normal[3], 1>>>>

\* a vertex with the normal (1, 2, 0) went through a model matrix of scale 0: the
\* transformed normal is (1, 2, 0)
C20_Witness ==
    /\ eval.fn = "vertex_shader"
    /\ \A i \in 1 .. 3, j \in 1 .. 3 : eval.args[2].model_matrix[i][j] = 0
    /\ eval.args[1].normal = <<1, 2, 0>>
    /\ eval.ret[1].transformed_normal = <<<<1, 1>>, <<2, 1>>, <<0, 1>>>>

-----------------------------------------------------------------------------
(* Properties of the parallel render *)

\* the pixels whose colour or depth a step changes
Written == {i \in DOMAIN depth_buffer :
               depth_buffer'[i] # depth_buffer[i] \/ color_buffer'[i] # color_buffer[i]}

\* C17: in render the fragments are shaded in parallel per triangle, and they are
\* applied to the colour and depth buffer one at a time by the write loop, only
\* after every worker has finished: while the loop writes no worker is left, and
\* a step of render that changes a buffer is a step of the write loop, which
\* changes one pixel, while the steps of the workers change none.
C17_SequentialWrites ==
    /\ [](pc = "writing" => work = {})
    /\ [][/\ work' # work => Written = {}
          /\ pc # "idle" /\ Written # {} =>
                 /\ pc = "writing" /\ work = {} /\ work' = {}
                 /\ Cardinality(Written) = 1
                 /\ fi' = IF fi = Len(fragments) THEN 1 ELSE fi + 1]_vars

\* the workers of two triangles have finished, having shaded their fragments in
\* different colours, and the write loop has written a first pixel
C17_Witness ==
    /\ pc = "writing" /\ Len(triangles) = 2 /\ fi > 1
    /\ call.op = "point" /\ call.ret
    /\ \E k \in 1 .. Len(fragments) : fragments[k].color # fragments[1].color

-----------------------------------------------------------------------------
(* Properties of the main loop *)

\* the steps of one complete iteration, in order
FrameSteps ==
    <<"clear", "body", "body", "body", "body", "body", "body", "body", "body",
      "moon", "saturn_rings", "alien_rings", "present">>

IsPrefix(s, t) == Len(s) <= Len(t) /\ s = SubSeq(t, 1, Len(s))

\* C18: in every iteration of the main loop the steps happen in the order clear,
\* the render calls of the eight bodies, of the moon, of saturn's rings and of
\* the alien planet's rings, then the presentation; a render call begins only
\* when the one before it returned, the buffer is presented only when the last
\* one returned, and an iteration begins or the loop ends only when the
\* iteration before it presented its buffer
C18_FrameOrder ==
    /\ [](/\ IsPrefix(main.log, FrameSteps)
          /\ pc # "idle" => /\ main.log # <<>>
                            /\ main.log[Len(main.log)] \notin {"clear", "present"}
          /\ main.pos = "exited" => main.log \in {<<>>, FrameSteps})
    /\ [][/\ main'.log # main.log => pc = "idle"
          /\ main'.log # main.log /\ main'.log = <<>> => main.log = FrameSteps
          /\ main'.log # main.log /\ main'.log # <<>> => main'.log = Append(main.log, main'.log[Len(main'.log)])
          /\ main'.shown # main.shown =>
                /\ main'.log = FrameSteps
                /\ main'.shown = IF main.factor > 1
                                 THEN downsample_buffer(Buffer, width, height,
                                                        WinWidth, WinHeight).ret
                                 ELSE Buffer]_vars

\* a second iteration presented a buffer in which a render call drew
C18_Witness ==
    /\ main.frames = 2
    /\ main.log = FrameSteps
    /\ \E i \in DOMAIN main.shown : main.shown[i] # ToHex(NAVY)

-----------------------------------------------------------------------------
(* Properties of the normal transform *)

\* the upper 3x3 block of a 4x4 matrix
UpperBlock(m) == [i \in 1 .. 3 |-> [j \in 1 .. 3 |-> m[i][j]]]

\* transpose(inverse(M)) applied to the normal n
InverseTransposed(M, n) == MatVec3(Transpose3(InverseOr(M, Identity3)), n)

\* C21: for every model matrix whose upper 3x3 block M is invertible, the
\* transformed normal vertex_shader returns is transpose(inverse(M)) applied to
\* the vertex's normal
C21_Original ==
    eval.fn = "vertex_shader" /\ Determinant3(UpperBlock(eval.args[2].model_matrix)) # 0
        => eval.ret[1].transformed_normal =
               InverseTransposed(UpperBlock(eval.args[2].model_matrix), eval.args[1].normal)

-----------------------------------------------------------------------------
(* Properties of culling and fill together *)

\* primitive assembly keeps the triangle when it is the whole vertex stream
Kept(tri) == Assemble(tri, 0) = <<tri>>

\* which side of the line from a to b the point p is on: positive, negative or zero
Side(a, b, p) == (b[1] - a[1]) * (p[2] - a[2]) - (b[2] - a[2]) * (p[1] - a[1])

\* the centre of pixel (x, y) is strictly inside the triangle: on the same side
\* of its three edges, and on none of them
Interior(tri, x, y) ==
    LET p == <<x * Scale + Half, y * Scale + Half>>
        s1 == Side(Pos(tri, 1), Pos(tri, 2), p)
        s2 == Side(Pos(tri, 2), Pos(tri, 3), p)
        s3 == Side(Pos(tri, 3), Pos(tri, 1), p)
    IN  \/ s1 > 0 /\ s2 > 0 /\ s3 > 0
        \/ s1 < 0 /\ s2 < 0 /\ s3 < 0

-----------------------------------------------------------------------------
(* Properties of primitive assembly *)

\* the step is the vertex stage and primitive assembly of a render call
AssemblyStep == Drew /\ call'.op = "render"

\* the k-th candidate triangle of a stream, k counted from 0
Candidate(tv, k) == <<tv[3 * k + 1], tv[3 * k + 2], tv[3 * k + 3]>>

\* the candidates of a stream in order, one for every whole group of three vertices
Candidates(tv) == [k \in 1 .. (Len(tv) \div 3) |-> Candidate(tv, k - 1)]

Facing(t) == Cross(t[1], t[2], t[3]) > 0

\* C23: primitive assembly takes the vertices in groups of three, in order: the
\* triangles it produces are the front-facing ones among the candidates
\* <<3k, 3k+1, 3k+2>>, in stream order with their vertices in stream order, at
\* most floor(n / 3) of them, and the one or two vertices left over are not read:
\* no index is out of range
C23_StrideThree ==
    [][AssemblyStep =>
          /\ triangles' = SelectSeq(Candidates(call'.tri), Facing)
          /\ Len(triangles') <= Len(call'.tri) \div 3
          /\ panicked' = panicked]_vars

\* a stream of seven vertices was assembled into two triangles, the seventh
\* vertex left over
C23_Witness ==
    /\ pc = "assembled"
    /\ call.op = "render"
    /\ Len(call.tri) = 7
    /\ triangles = <<Candidate(call.tri, 0), Candidate(call.tri, 1)>>
    /\ ~panicked

-----------------------------------------------------------------------------
(* Properties of the colour write *)

\* the value the shader computes for a material, before any clamp
Shaded(material) == IF material.pattern % 7 = 6 THEN material.base ELSE material.shade

\* the channel value v / ChanUnit as a u8: 0 below 0, 255 from 1.0 on
Saturated(v) ==
    IF v <= 0 THEN 0 ELSE IF v >= ChanUnit THEN 255 ELSE (v * 255) \div ChanUnit

\* C24: every pixel triangle_filled writes holds, channel by channel, the shaded
\* value saturated to 0..255: 255 for a value above 1.0, 0 for a value below 0,
\* never a wrapped value; and of two fills, the one with the greater shaded value
\* in a channel writes at least as great a packed value in that channel
C24_SaturatingWrite ==
    [][FillStep =>
          LET v == Shaded(eval'.args[1])
          IN  /\ \A i \in Pixels :
                    color_buffer'[i] # color_buffer[i] =>
                       /\ color_buffer'[i] = <<Saturated(v[1]), Saturated(v[2]), Saturated(v[3])>>
                       /\ \A k \in 1 .. 3 : color_buffer'[i][k] \in 0 .. 255
              /\ eval.fn = "triangle_filled" =>
                    \A k \in 1 .. 3 :
                        Shaded(eval.args[1])[k] <= v[k] => eval.ret[1][k] <= eval'.ret[1][k]]_vars

\* a fill wrote a channel shaded above 1.0 as 255 and one shaded below 0 as 0
C24_Witness ==
    /\ call.op = "triangle_filled"
    /\ eval.fn = "triangle_filled"
    /\ Shaded(eval.args[1])[1] > ChanUnit
    /\ Shaded(eval.args[1])[2] < 0
    /\ color_buffer[0][1] = 255
    /\ color_buffer[0][2] = 0

-----------------------------------------------------------------------------
(* Properties of the ring material in render *)

\* the ring material discards the position: radial distance below 0.6 or above
\* 1.0, or more than 0.05 off the equatorial plane
RingDiscards(pos) ==
    \/ 25 * Radial2(pos) < 9 * PosDen * PosDen
    \/ Radial2(pos) > PosDen * PosDen
    \/ pos[2] * 20 > PosDen
    \/ pos[2] * 20 < -PosDen

\* as stated, C25: a fragment the ring material discards changes neither the
\* colour nor the depth stored at its pixel when render writes it (the fragments
\* looked at are those inside the framebuffer)
C25_Original ==
    [][(/\ pc = "writing" /\ eval.fn = "ring_shader" /\ RingDiscards(eval.args[1])
        /\ ~Outside(fragments[fi]))
       => color_buffer' = color_buffer /\ depth_buffer' = depth_buffer]_vars

-----------------------------------------------------------------------------
(* Properties of the supersample factor *)

\* the step is the head of an iteration of the main loop that goes on to draw
LoopHead == main.pos = "top" /\ main'.pos # "top" /\ main'.pos # "exited"

\* as stated, C26: the supersample factor has hysteresis: when the camera's
\* distance crosses the threshold 1500 back and forth on consecutive frames, the
\* factor does not flip and the framebuffer is not replaced on both of two
\* consecutive frames
C26_Original ==
    [][(LoopHead /\ main.realloc) => (~main'.realloc /\ main'.factor = main.factor)]_vars

-----------------------------------------------------------------------------
(* Properties of the screen mapping *)

\* the normalized-device x and y of a vertex under the uniforms
Ndc(vertex, uniforms) ==
    LET mvp == MatMul4(uniforms.projection_matrix,
                       MatMul4(uniforms.view_matrix, uniforms.model_matrix))
        t == MatVec4(mvp, <<vertex.position[1], vertex.position[2], vertex.position[3], 1>>)
    IN  <<QuotF32(t[1], t[4]), QuotF32(t[2], t[4])>>

\* as stated, C27: for the framebuffer of the supersample factor 1 and of the
\* factor 2 (the window is 1200 x 800), vertex_shader maps the normalized-device
\* x = -1 and x = 1 to the left and the right edge of the framebuffer and y = 1
\* and y = -1 to its top and its bottom edge
C27_Original ==
    eval.fn = "vertex_shader" =>
        \A factor \in {1, 2} :
            LET ndc == Ndc(eval.args[1], eval.args[2])
                screen == eval.ret[1].transformed_position
                framebuffer_width == 1200 * factor
                framebuffer_height == 800 * factor
            IN  /\ ndc[1] = <<-1, 1>> => screen[1] = <<0, 1>>
                /\ ndc[1] = <<1, 1>> => screen[1] = <<framebuffer_width, 1>>
                /\ ndc[2] = <<1, 1>> => screen[2] = <<0, 1>>
                /\ ndc[2] = <<-1, 1>> => screen[2] = <<framebuffer_height, 1>>

-----------------------------------------------------------------------------
(* Properties of the pixels a fill visits *)

\* the pixels the loops of triangle_filled visit for a triangle
Visited(tri) ==
    LET order == ScanOrder(BoundingBox(Pos(tri, 1), Pos(tri, 2), Pos(tri, 3)))
    IN  {order[k] : k \in 1 .. Len(order)}

\* the least and the greatest coordinate of a triangle's vertices along axis c
Least(tri, c) == Min(Min(Pos(tri, 1)[c], Pos(tri, 2)[c]), Pos(tri, 3)[c])
Greatest(tri, c) == Max(Max(Pos(tri, 1)[c], Pos(tri, 2)[c]), Pos(tri, 3)[c])

\* pixel (x, y) lies in the bounding box of the triangle: its cell meets the
\* span of the vertices on both axes
InBox(tri, x, y) ==
    /\ (x + 1) * Scale > Least(tri, 1) /\ (x - 1) * Scale < Greatest(tri, 1)
    /\ (y + 1) * Scale > Least(tri, 2) /\ (y - 1) * Scale < Greatest(tri, 2)

\* no point of the triangle is inside the framebuffer: it lies beyond one of the
\* four edges, or beyond the line x + y = 0 through the corner at the origin
WhollyOutside(tri) ==
    \/ Greatest(tri, 1) < 0
    \/ Greatest(tri, 2) < 0
    \/ Least(tri, 1) > width * Scale
    \/ Least(tri, 2) > height * Scale
    \/ \A k \in 1 .. 3 : Pos(tri, k)[1] + Pos(tri, k)[2] < 0

\* C28: for any three vertex positions, on or off the screen, every pixel that
\* triangle_filled visits, tests against the depth buffer or writes has
\* 0 <= x < width and 0 <= y < height and lies in the triangle's bounding box, no
\* buffer is indexed out of range, and a triangle wholly outside the framebuffer
\* changes nothing
C28_FillStaysInside ==
    [][FillStep =>
          LET tri == call'.tri
          IN  /\ \A p \in Visited(tri) :
                    /\ 0 <= p[1] /\ p[1] < width /\ 0 <= p[2] /\ p[2] < height
                    /\ InBox(tri, p[1], p[2])
              /\ \A x \in 0 .. (width - 1), y \in 0 .. (height - 1) :
                    (\/ depth_buffer'[y * width + x] # depth_buffer[y * width + x]
                     \/ color_buffer'[y * width + x] # color_buffer[y * width + x])
                        => <<x, y>> \in Visited(tri) /\ InBox(tri, x, y)
              /\ DOMAIN depth_buffer' = Pixels /\ DOMAIN color_buffer' = Pixels
              /\ panicked' = panicked
              /\ WhollyOutside(tri) =>
                    color_buffer' = color_buffer /\ depth_buffer' = depth_buffer]_vars

\* a triangle wholly outside the framebuffer, in the winding that is filled and
\* with a bounding box that reaches into the framebuffer, was handed to
\* triangle_filled: pixels were visited and none was changed
C28_Witness ==
    /\ Len(hist) = 1
    /\ call.op = "triangle_filled"
    /\ WhollyOutside(call.tri)
    /\ AreaOf(call.tri) < 0
    /\ Visited(call.tri) # {}
    /\ \A i \in Pixels : depth_buffer[i] = Infinity

-----------------------------------------------------------------------------
(* Properties of the framebuffer's size *)

\* the step begins a render call of the main loop
RenderCall == main.pos = "render" /\ main'.rk = main.rk + 1

\* the step hands a buffer to the window
Presents == main.pos = "present" /\ main'.pos # "present"

\* C29: at every render call of the main loop the framebuffer is the window's
\* width and height times the supersample factor in force, with buffers of that
\* many pixels, and the buffer handed to the window at the presentation holds
\* window_width x window_height pixels, however often the factor has changed
C29_SizesAgree ==
    [][/\ RenderCall =>
             /\ width = WinWidth * main.factor
             /\ height = WinHeight * main.factor
             /\ DOMAIN color_buffer = 0 .. (width * height - 1)
             /\ DOMAIN depth_buffer = 0 .. (width * height - 1)
       /\ Presents => DOMAIN main'.shown = 0 .. (WinWidth * WinHeight - 1)]_vars

\* the factor changed on each of three frames, from 1 to 2, to 1 and back to 2,
\* and the third frame was presented from the framebuffer of twice the window's side
C29_Witness ==
    /\ main.frames = 3
    /\ main.log[Len(main.log)] = "present"
    /\ main.realloc
    /\ main.factor = 2
    /\ main.camera.offset = 1510
    /\ width = 2 * WinWidth
    /\ DOMAIN main.shown = 0 .. (WinWidth * WinHeight - 1)

-----------------------------------------------------------------------------
(* Properties of the camera *)

\* the camera's distance to its target, and the side of the target it is on
Distance == Abs(main.camera.offset)
SameSide == main.camera.offset > 0

\* C30: from a camera whose distance to its target is within [80, 4000], after
\* any sequence of zoom_in, zoom_out, move_forward, move_right and move_up with
\* the steps of handle_input, the distance is within [80, 4000], the camera is
\* on the side of the target where it began, and no coordinate is NaN
C30_DistanceHeld ==
    /\ 80 <= Distance
    /\ Distance <= 4000
    /\ SameSide
    /\ ~main.camera.nan

\* zoom_in found the camera, moved forward, right and up with its target, at
\* distance 89, where the step of 10 would bring it to 79, and left it at 80
C30_Witness ==
    /\ eval.fn = "zoom_in"
    /\ eval.args = <<89>>
    /\ Distance = 80
    /\ main.camera.fwd # 0
    /\ main.camera.right # 0
    /\ main.camera.up # 0

====
